---- MODULE Spec2Model ----
(***************************************************************************)
(* Model of the batch orchestration core of gemini-batch:                  *)
(*   BatchProcessor.processInputs (input expansion and batch loop),        *)
(*   processFile, monitorBatchJob and close (src/src/processor.ts)         *)
(*   over GeminiProvider (src/src/gemini.ts).                              *)
(*                                                                         *)
(* JavaScript runs the code between two awaits atomically, so one action   *)
(* is one continuation: the completion of a remote call (or of a timer)    *)
(* together with everything the code does until the next await.            *)
(* Strings that the code inspects character by character (job states) are  *)
(* sequences of one-character strings.                                     *)
(***************************************************************************)
EXTENDS Integers, Sequences, FiniteSets, TLC

\* ------------------------------------------------------------------ bounds
MaxFiles == 3          \* longest expanded input list explored
MaxConcurrency == 2    \* largest maxConcurrentJobs explored
MaxRepolls == 3        \* re-polls (after a sleep) explored in a one-file run
MaxBatchRepolls == 1   \* re-polls explored in a run of several files, all jobs together
MaxPaths == 2          \* longest list of input paths explored in a run of the expansion
MaxBackoffRepolls == 10 \* re-polls explored in a run against a service that stays RUNNING
MaxOps == 2            \* operations called on one BatchProcessor by the commands
MaxLoopTurns == 4      \* how far below 0 the loop index of processInputs is followed
MaxCommands == 2       \* config commands run one after the other

\* --------------------------------------------------------------- constants
maxInterval == 60000
DefaultCheckInterval == 30
DefaultMaxConcurrentJobs == 5
\* checkInterval is kept in 1/Den ms so that the factor 1.5 stays exact
Den == 2 ^ MaxBackoffRepolls

\* ----------------------------------------------------------------- strings
UpperChars == <<"A","B","C","D","E","F","G","H","I","J","K","L","M",
                "N","O","P","Q","R","S","T","U","V","W","X","Y","Z">>
LowerChars == <<"a","b","c","d","e","f","g","h","i","j","k","l","m",
                "n","o","p","q","r","s","t","u","v","w","x","y","z">>

\* String.prototype.toLowerCase, one character
toLowerCaseChar(c) ==
  IF \E n \in 1..26 : UpperChars[n] = c
  THEN LowerChars[CHOOSE n \in 1..26 : UpperChars[n] = c]
  ELSE c

toLowerCase(s) == [n \in 1..Len(s) |-> toLowerCaseChar(s[n])]

\* .replace(/[\s-]/g, "_"), one character
replaceSepChar(c) == IF c \in {" ", "-"} THEN "_" ELSE c

\* GeminiProvider.normalizeStatus
normalizeStatus(status) ==
  [n \in 1..Len(status) |-> replaceSepChar(toLowerCase(status)[n])]

\* the literals the code compares a status with
completed == <<"c","o","m","p","l","e","t","e","d">>
failed    == <<"f","a","i","l","e","d">>
expired   == <<"e","x","p","i","r","e","d">>
cancelled == <<"c","a","n","c","e","l","l","e","d">>
error     == <<"e","r","r","o","r">>
unknown   == <<"u","n","k","n","o","w","n">>
created   == <<"c","r","e","a","t","e","d">>
COMPLETED == <<"C","O","M","P","L","E","T","E","D">>

\* other values of the status vocabulary
queued    == <<"q","u","e","u","e","d">>
running   == <<"r","u","n","n","i","n","g">>
succeeded == <<"s","u","c","c","e","e","d","e","d">>

\* a status that could not be retrieved (null); `job.state || "unknown"`
\* keeps the empty string from ever being a retrieved status
null == << >>
\* a remote job object without a state (job.state undefined)
NoState == << >>

\* raw states the remote service is taken to report
RAW_QUEUED    == <<"Q","U","E","U","E","D">>
RAW_RUNNING   == <<"R","U","N","N","I","N","G">>
RAW_SUCCEEDED == <<"S","U","C","C","E","E","D","E","D">>
RAW_FAILED    == <<"F","A","I","L","E","D">>
RAW_EXPIRED   == <<"E","X","P","I","R","E","D">>
RAW_CANCELLED == <<"C","A","N","C","E","L","L","E","D">>
RAW_ERROR     == <<"E","R","R","O","R">>
RAW_Completed == <<"C","o","m","p","l","e","t","e","d">>
JOB_STATE_SUCCEEDED ==
  <<"J","O","B","_","S","T","A","T","E","_","S","U","C","C","E","E","D","E","D">>
JOB_STATE_FAILED ==
  <<"J","O","B","_","S","T","A","T","E","_","F","A","I","L","E","D">>
JOB_STATE_PENDING ==
  <<"J","O","B","_","S","T","A","T","E","_","P","E","N","D","I","N","G">>

RawStates ==
  { RAW_QUEUED, RAW_RUNNING, RAW_SUCCEEDED, COMPLETED, RAW_Completed,
    RAW_FAILED, RAW_EXPIRED, RAW_CANCELLED, RAW_ERROR,
    JOB_STATE_SUCCEEDED, JOB_STATE_FAILED, NoState }

RawStatesCore == { RAW_RUNNING, COMPLETED, RAW_FAILED }

\* ------------------------------------------------------------------- paths
OutputDir == "out"
\* file names; path.extname reads them character by character
a_jsonl == <<"a",".","j","s","o","n","l">>
b_jsonl == <<"b",".","j","s","o","n","l">>
c_jsonl == <<"c",".","j","s","o","n","l">>
d_jsonl == <<"d",".","j","s","o","n","l">>
e_jsonl == <<"e",".","j","s","o","n","l">>
b_txt   == <<"b",".","t","x","t">>
c_JSONL == <<"c",".","J","S","O","N","L">>
x_jsonl == <<"x",".","j","s","o","n","l">>
notes_txt  == <<"n","o","t","e","s",".","t","x","t">>
gone_jsonl == <<"g","o","n","e",".","j","s","o","n","l">>
README     == <<"R","E","A","D","M","E">>
data == <<"d","a","t","a">>
sub  == <<"s","u","b">>
docs == <<"d","o","c","s">>

\* a path is the sequence of its segments
DataDir == <<data>>
SubDir  == <<data, sub>>
DocsDir == <<docs>>
InputNames == << <<a_jsonl>>, <<b_jsonl>>, <<c_jsonl>>, <<d_jsonl>>, <<e_jsonl>> >>

\* path.join(path, file)
join(path, file) == Append(path, file)

\* path.extname: from the last "." of the last segment to its end; empty when
\* there is none or when it is the first character of the segment
extname(path) ==
  LET base == path[Len(path)]
      dots == { n \in 1..Len(base) : base[n] = "." }
      last == CHOOSE n \in dots : \A m \in dots : m <= n
  IN IF dots = {} \/ last = 1 THEN << >> ELSE SubSeq(base, last, Len(base))

jsonlExt == <<".","j","s","o","n","l">>

\* mutant: the extension is compared as it is written
isJsonlCaseSensitive(path) == extname(path) = jsonlExt

\* mutant: the other extensions are submitted as well
isJsonlOrOther(path) == extname(path) # << >>

\* extname(path).toLowerCase() === ".jsonl"
isJsonl(path) == toLowerCase(extname(path)) = jsonlExt

\* the file system the run reads its inputs from: the five files of InputNames
\* and notes.txt in the working directory, the directory data with a.jsonl,
\* b.txt, c.JSONL and the sub-directory sub, which holds x.jsonl, and the
\* directory docs with notes.txt and README
ExistingFiles ==
  { InputNames[n] : n \in 1..Len(InputNames) } \cup
  { <<notes_txt>>, <<data, a_jsonl>>, <<data, b_txt>>, <<data, c_JSONL>>,
    <<data, sub, x_jsonl>>, <<docs, notes_txt>>, <<docs, README>> }

\* fs.stat(path): throws for a path that does not exist
stat(path) ==
  IF path \in {DataDir, SubDir, DocsDir} THEN "directory"
  ELSE IF path \in ExistingFiles THEN "file"
  ELSE "ENOENT"

\* fs.readdir(path): the names of the entries, in listing order
readdir(path) ==
  IF path = DataDir THEN <<a_jsonl, b_txt, c_JSONL, sub>>
  ELSE IF path = SubDir THEN <<x_jsonl>>
  ELSE IF path = DocsDir THEN <<notes_txt, README>>
  ELSE << >>

\* the names the service gives to the uploaded files
UploadNames == <<"files/1", "files/2", "files/3", "files/4", "files/5", "files/6",
                 "files/7", "files/8">>
JobNames == <<"batches/1", "batches/2", "batches/3", "batches/4", "batches/5",
              "batches/6", "batches/7", "batches/8">>
NoPath == [dir |-> "", name |-> << >>]

\* a directory, as a path
dirPath(d) == [dir |-> d, name |-> << >>]

\* mutant: the file name is not keyed by the job id
outputFileShared(outputDir, id) ==
  [dir |-> outputDir, name |-> <<"batch", "_results.jsonl">>]

\* path.join(outputDir, `${id}_results.jsonl`)
outputFile(outputDir, id) == [dir |-> outputDir, name |-> <<id, "_results.jsonl">>]

\* ----------------------------------------------------------------- results
NoResult == [jobId |-> "", success |-> FALSE, outputFilePath |-> NoPath]

VARIABLES
  inputPaths,     \* the inputPaths argument of processInputs
  maxConcurrentJobs, \* the argument of processInputs (0: not given)
  config,         \* the loaded configuration: checkInterval, maxConcurrentJobs
  remoteStates,   \* raw states the remote service reports in this run
  faults,         \* whether the calls to the remote service can fail in this run
  createStates,   \* raw states the remote service gives a job it has just created
  recordOrder,    \* whether this run keeps doneLog
  provider,       \* BatchProcessor.provider
  cpc,            \* close: "idle", "await", "returned"
  inputFiles,     \* the expanded list of input files
  nextPath,       \* position in inputPaths of the path whose fs.stat is awaited
  warnings,       \* the warnings logged by processInputs, in order
  ppc,            \* processInputs: "called", "expand", "await", "returned", "rejected"
  i,              \* processInputs' loop index (0-based, as in the code)
  results,        \* processInputs' results array
  resultFiles,    \* for each entry of results, the input file it came from
  pc,             \* per input file: position of its processFile
  fileId,         \* per input file: what uploadFile returned
  batchJob,       \* per input file: id of the BatchJob created for it
  checkInterval,  \* per input file: monitorBatchJob's checkInterval, in 1/Den ms
  result,         \* per input file: the BatchJobResult of its processFile
  uploadCalls,    \* per input file: client.files.upload calls issued
  createCalls,    \* per input file: client.batches.create calls issued
  downloadCalls,  \* per input file: downloadBatchResults calls issued
  statusLog,      \* per input file: what checkBatchStatus returned, in order
  downloadLog,    \* per input file: what downloadBatchResults returned, in order
  sleepLog,       \* per input file: the sleeps started, in order (1/Den ms)
  callLog,        \* per input file: the provider calls issued for it, in order
  job,            \* per input file: the other fields of its BatchJob object
  doneLog,        \* the input files in the order their processFile returned
  nextJob,        \* number of jobs the remote service has created
  disk,           \* paths that exist on the local disk
  env,            \* process.env: the two variables getApiKey reads
  configFile,     \* ~/.gemini-batch/config.json: its content, or NoFile
  opLog,          \* the operations called on the BatchProcessor from outside
  jd,             \* handleJobDownload: its position, locals and effects
  cmd             \* the config commands: position, argument, what was reported

\* what a run is started with
params == <<inputPaths, maxConcurrentJobs, config, remoteStates, faults,
            createStates, recordOrder>>

\* the state of processInputs and of its processFile calls
run == <<inputFiles, nextPath, warnings, ppc, i, results, resultFiles, pc, fileId,
         batchJob, checkInterval, result, uploadCalls, createCalls,
         downloadCalls, statusLog, downloadLog, sleepLog, callLog, job,
         doneLog, nextJob, disk>>

\* the process environment, the config file and the calls of the commands
cli == <<env, configFile, opLog, jd, cmd>>

vars == <<params, provider, cpc, run, cli>>

Files == 1..Len(inputFiles)

Min(a, b) == IF a <= b THEN a ELSE b
Max(a, b) == IF a >= b THEN a ELSE b

\* BatchProcessor.provider after initializeProvider, and after close
GeminiProvider == "GeminiProvider"
NoProvider == "null"

\* ------------------------------------------------------------- BatchJob
undefined == "undefined"

\* process.env without the two key variables
NoEnv == [GEMINI_API_KEY |-> undefined, GOOGLE_GENERATIVE_AI_API_KEY |-> undefined]

\* the config file: absent (fs.readFile fails with ENOENT), text that
\* JSON.parse or ConfigSchema rejects, or a JSON object. In the JSON object a
\* property that may be absent is a sequence of no or one value.
NoJson == [gemini |-> << >>, maxConcurrentJobs |-> << >>, checkInterval |-> << >>]
NoFile == [kind |-> "ENOENT", json |-> NoJson]
InvalidFile == [kind |-> "invalid", json |-> NoJson]

\* no BatchJob object yet
NoJob == [status |-> null, inputFileId |-> "", createdAt |-> undefined,
          completedAt |-> undefined, outputFileId |-> undefined]

\* the object createBatchJob returns (its id is kept in batchJob)
createdJob(state, inputFileId) ==
  [status |-> normalizeStatus(IF state = NoState THEN created ELSE state),
   inputFileId |-> inputFileId, createdAt |-> "Date",
   completedAt |-> undefined, outputFileId |-> undefined]

\* the calls made on the provider, with their arguments
uploadCall(file) == [op |-> "uploadFile", file |-> file, id |-> "", path |-> NoPath]
createCall(inputFileId) ==
  [op |-> "createBatchJob", file |-> << >>, id |-> inputFileId, path |-> NoPath]
statusCall(id) == [op |-> "checkBatchStatus", file |-> << >>, id |-> id, path |-> NoPath]
downloadCall(id, path) ==
  [op |-> "downloadBatchResults", file |-> << >>, id |-> id, path |-> path]

\* ------------------------------------------------------------------ Config
DEFAULT_MODE == "gemini-2.5-flash"

\* a JavaScript value used as a condition: undefined and "" are falsy
truthy(v) == v # undefined /\ v # ""

\* mutant: the environment is looked at before the stored key
getApiKeyEnvFirst(cfg, e) ==
  IF truthy(e.GEMINI_API_KEY) THEN e.GEMINI_API_KEY
  ELSE IF truthy(cfg.gemini.apiKey) THEN cfg.gemini.apiKey
  ELSE e.GOOGLE_GENERATIVE_AI_API_KEY

\* Config.getApiKey: this.config.gemini.apiKey || process.env.GEMINI_API_KEY ||
\* process.env.GOOGLE_GENERATIVE_AI_API_KEY
getApiKey(cfg, e) ==
  IF truthy(cfg.gemini.apiKey) THEN cfg.gemini.apiKey
  ELSE IF truthy(e.GEMINI_API_KEY) THEN e.GEMINI_API_KEY
  ELSE e.GOOGLE_GENERATIVE_AI_API_KEY

\* ------------------------------------------------------- handleJobDownload
\* the working directory, and the --output values of the command: none, an
\* existing directory, an existing file, and two paths that do not exist
Cwd == <<".">>
NoOutput == << >>
ExistingDir == <<"r","e","s">>
ExistingFile == <<"o","l","d">>
NewFile == <<"n",".","j","s","o","n","l">>
NewDir == <<"n","e","w">>
Outputs == { NoOutput, ExistingDir, ExistingFile, NewFile, NewDir }

\* fs.stat(outputPath)
outputStat(path) ==
  IF path = ExistingDir THEN "dir"
  ELSE IF path = ExistingFile THEN "file"
  ELSE "ENOENT"

\* outputPath.endsWith(".jsonl") || outputPath.includes(".")
looksLikeFile(path) == \E n \in 1..Len(path) : path[n] = "."

\* `${Math.floor(Date.now() / 1000)}_${jobId.split("/").pop()}.jsonl`
defaultFilename(jobId) == <<"now", "_", jobId, ".jsonl">>

\* the outputFile handleJobDownload settles on, as directory and file name
downloadTarget(output, jobId) ==
  IF output = NoOutput THEN [dir |-> Cwd, name |-> defaultFilename(jobId)]
  ELSE IF outputStat(output) = "dir" THEN [dir |-> output, name |-> defaultFilename(jobId)]
  ELSE IF outputStat(output) = "file" THEN [dir |-> Cwd, name |-> output]
  ELSE IF looksLikeFile(output) THEN [dir |-> Cwd, name |-> output]
  ELSE [dir |-> output, name |-> defaultFilename(jobId)]

\* mutant: every job that was found is downloaded
foundJob(j) == j.kind = "job"

\* job && job.state === "JOB_STATE_SUCCEEDED"
succeededJob(j) == j.kind = "job" /\ j.state = JOB_STATE_SUCCEEDED

\* what processor.getJob can do: throw, find no job, or return a job
GetJobOutcomes ==
  [kind : {"threw", "null"}, state : {NoState}] \cup
  [kind : {"job"},
   state : {JOB_STATE_SUCCEEDED, JOB_STATE_FAILED, JOB_STATE_PENDING, COMPLETED, NoState}]

\* what processor.downloadJobResults can do: throw, or return a boolean
DownloadJobOutcomes == { "threw", "true", "false" }

NoTarget == [dir |-> << >>, name |-> << >>]

\* handleJobDownload has not been called
NoDownload ==
  [pc |-> "idle", jobId |-> "", output |-> NoOutput,
   job |-> [kind |-> "null", state |-> NoState], outputFile |-> NoTarget,
   created |-> {}, downloads |-> 0, closes |-> 0, ret |-> "pending"]

\* ConfigSchema.parse of a JSON object: absent properties get their defaults
ConfigSchemaParse(json) ==
  [gemini |->
     IF json.gemini = << >> THEN [apiKey |-> undefined, model |-> DEFAULT_MODE]
     ELSE [apiKey |-> json.gemini[1].apiKey,
           model |-> IF json.gemini[1].model = undefined THEN DEFAULT_MODE
                     ELSE json.gemini[1].model],
   maxConcurrentJobs |->
     IF json.maxConcurrentJobs = << >> THEN DefaultMaxConcurrentJobs
     ELSE json.maxConcurrentJobs[1],
   checkInterval |->
     IF json.checkInterval = << >> THEN DefaultCheckInterval
     ELSE json.checkInterval[1]]

\* Config.load: the parsed file, or the defaults when it cannot be read
load(file) ==
  IF file.kind = "json" THEN ConfigSchemaParse(file.json)
  ELSE ConfigSchemaParse(NoJson)

\* JSON.stringify(this.config, null, 2), as the JSON object a later
\* JSON.parse yields: a property whose value is undefined is left out
JSONstringify(cfg) ==
  [gemini |-> <<[apiKey |-> cfg.gemini.apiKey, model |-> cfg.gemini.model]>>,
   maxConcurrentJobs |-> <<cfg.maxConcurrentJobs>>,
   checkInterval |-> <<cfg.checkInterval>>]

\* Config.save when fs.mkdir and fs.writeFile succeed: the new file
save(cfg) == [kind |-> "json", json |-> JSONstringify(cfg)]

\* Config.setApiKey
setApiKey(cfg, apiKey) == [cfg EXCEPT !.gemini.apiKey = apiKey]

\* no config command has run
NoCommand ==
  [pc |-> "idle", log |-> << >>, key |-> undefined, reported |-> FALSE,
   before |-> ConfigSchemaParse(NoJson), shown |-> undefined]

\* ---------------------------------------------------------- input expansion
skipWarning(path) == [warning |-> "Skipping non-JSONL file", path |-> path]
noFilesWarning == [warning |-> "No JSONL files found", path |-> << >>]

\* what one existing input path adds to inputFiles, and whether it is skipped
\* with a warning
expandPath(path) ==
  IF stat(path) = "directory"
  THEN LET kept == SelectSeq(readdir(path), LAMBDA file : isJsonl(<<file>>))
       IN [files |-> [n \in 1..Len(kept) |-> join(path, kept[n])], warned |-> FALSE]
  ELSE IF isJsonl(path)
       THEN [files |-> <<path>>, warned |-> FALSE]
       ELSE [files |-> << >>, warned |-> TRUE]

\* BatchProcessor.initializeProvider: a provider when there is an API key
initializeProvider(cfg, e) ==
  IF truthy(getApiKey(cfg, e)) THEN GeminiProvider ELSE NoProvider

\* ------------------------------------------------------------ processInputs
\* mutant: the argument is ignored, the configured limit is used
concurrencyFromConfig == config.maxConcurrentJobs

\* maxConcurrentJobs || config.maxConcurrentJobs
concurrency ==
  IF maxConcurrentJobs # 0 THEN maxConcurrentJobs ELSE config.maxConcurrentJobs

\* Array.prototype.slice's treatment of one bound, for an array of length n
sliceBound(n, b) == IF b < 0 THEN Max(n + b, 0) ELSE Min(b, n)

\* mutant: the slice starts one position late, slice(from + 1, from + concurrency)
batchDropsFirst(from) ==
  { k \in Files : /\ sliceBound(Len(inputFiles), from + 1) < k
                  /\ k <= sliceBound(Len(inputFiles), from + concurrency) }

\* mutant: the slice is one position too long, slice(from, from + concurrency + 1)
batchTooLong(from) ==
  { k \in Files : /\ sliceBound(Len(inputFiles), from) < k
                  /\ k <= sliceBound(Len(inputFiles), from + concurrency + 1) }

\* mutant: the slice starts one position early, slice(from - 1, from + concurrency)
batchOverlaps(from) ==
  { k \in Files : /\ sliceBound(Len(inputFiles), from - 1) < k
                  /\ k <= sliceBound(Len(inputFiles), from + concurrency) }

\* inputFiles.slice(from, from + concurrency), as the set of (1-based) positions
batch(from) ==
  { k \in Files : /\ sliceBound(Len(inputFiles), from) < k
                  /\ k <= sliceBound(Len(inputFiles), from + concurrency) }

\* mutant: the results are taken as the promises settle
RECURSIVE inCompletionOrder(_)
inCompletionOrder(S) ==
  IF S = {} THEN << >>
  ELSE LET late == { k \in S : \A n \in 1..Len(doneLog) : doneLog[n] # k }
           m == IF late # {} THEN CHOOSE x \in late : \A y \in late : x <= y
                ELSE doneLog[CHOOSE n \in 1..Len(doneLog) :
                               /\ doneLog[n] \in S
                               /\ \A j \in (n + 1)..Len(doneLog) : doneLog[j] \notin S]
       IN inCompletionOrder(S \ {m}) \o <<m>>

\* a set of positions as the ascending sequence of its elements
RECURSIVE inOrder(_)
inOrder(S) ==
  IF S = {} THEN << >>
  ELSE LET m == CHOOSE x \in S : \A y \in S : x <= y
       IN <<m>> \o inOrder(S \ {m})

\* mutant: Promise.any in place of Promise.all, one result is enough
anyFulfilled(B) == \E k \in B : pc[k] = "done"

\* Promise.all(batchPromises) is fulfilled: every processFile of the batch has
\* returned its result
allFulfilled(B) == \A k \in B : pc[k] = "done"

\* mutant: an unsuccessful result rejects the batch as well
anyRejectedOrFailed(B) ==
  \E k \in B : pc[k] = "rejected" \/ (pc[k] = "done" /\ ~result[k].success)

\* Promise.all(batchPromises) is rejected: some processFile of the batch threw
anyRejected(B) == \E k \in B : pc[k] = "rejected"

\* -------------------------------------------------------------- processFile
\* the result of the catch block, and of a null batchJob
unknownResult == [jobId |-> "unknown", success |-> FALSE, outputFilePath |-> NoPath]

\* mutant: no catch block, the error leaves processFile
processFileThrows == [pc |-> "rejected", result |-> NoResult]

\* how processFile ends when uploadFile (or anything in the try block) throws
processFileCatch == [pc |-> "done", result |-> unknownResult]

\* mutant: no null check, the monitor is started without a job
processFileMonitorsNull == [pc |-> "poll", result |-> NoResult]

\* how processFile ends when createBatchJob returned null
processFileNoJob == [pc |-> "done", result |-> unknownResult]

\* mutant: the error of fs.mkdir is swallowed and the run goes on
mkdirIgnored == [throws |-> FALSE]

\* fs.mkdir throws, outside any try block: processInputs rejects
mkdirThrows == [throws |-> TRUE]

\* the value a per-file variable has for file k, a file just added included
old(f, k, init) == IF k \in DOMAIN f THEN f[k] ELSE init

\* batch.map((file) => this.processFile(file, outputDir)): every processFile of
\* the batch runs up to its first await, the upload request; without a provider
\* getProvider throws inside the try block
dispatch(B) ==
  LET started == IF provider = NoProvider THEN processFileCatch
                 ELSE [pc |-> "upload", result |-> NoResult]
  IN /\ pc' = [k \in Files' |-> IF k \in B THEN started.pc ELSE old(pc, k, "idle")]
     /\ result' = [k \in Files' |-> IF k \in B THEN started.result
                                     ELSE old(result, k, NoResult)]
     /\ uploadCalls' = [k \in Files' |->
                          old(uploadCalls, k, 0) +
                          (IF k \in B /\ provider # NoProvider THEN 1 ELSE 0)]
     /\ callLog' = [k \in Files' |->
                      IF k \in B /\ provider # NoProvider
                      THEN Append(old(callLog, k, << >>), uploadCall(inputFiles'[k]))
                      ELSE old(callLog, k, << >>)]

\* the processFile calls that return in this step are recorded, those that
\* return synchronously in a dispatch in the order of the batch
Finish ==
  doneLog' = IF recordOrder
             THEN doneLog \o inOrder({ k \in Files' : /\ pc'[k] = "done"
                                                      /\ old(pc, k, "idle") # "done" })
             ELSE doneLog

\* ---------------------------------------------------------- GeminiProvider
\* what client.files.upload and client.batches.create can do: succeed, or throw
CallOutcomes == IF faults THEN BOOLEAN ELSE {TRUE}

\* what client.batches.get can do: throw, or return a job in some state
GetOutcomes ==
  (IF faults THEN [ok : {FALSE}, state : {NoState}] ELSE {}) \cup
  [ok : {TRUE}, state : remoteStates]

\* GeminiProvider.checkBatchStatus on one outcome of client.batches.get
checkBatchStatus(r) ==
  IF ~r.ok THEN null
  ELSE normalizeStatus(IF r.state = NoState THEN unknown ELSE r.state)

\* GeminiProvider.downloadBatchResults on one outcome of client.batches.get;
\* nothing is written to outputFilePath
downloadBatchResults(r) == r.ok /\ r.state = COMPLETED

\* what the provider's methods do with the outcome r of their client call:
\* the value they return, or the error they throw
\* mutant: the error of client.files.upload is mapped to null
uploadFileReturnsNull(r) ==
  IF r.ok THEN [threw |-> FALSE, value |-> UploadNames[1]]
  ELSE [threw |-> FALSE, value |-> null]

uploadFile(r) ==
  IF r.ok THEN [threw |-> FALSE, value |-> UploadNames[1]]
  ELSE [threw |-> TRUE, value |-> "error"]

createBatchJob(r, inputFileId) ==
  IF r.ok THEN [threw |-> FALSE,
                value |-> [id |-> JobNames[1], job |-> createdJob(r.state, inputFileId)]]
  ELSE [threw |-> FALSE, value |-> null]

\* listJobs and listFiles: the items of the pager, or the empty list
listItems(r) ==
  IF r.ok THEN [threw |-> FALSE, value |-> r.items]
  ELSE [threw |-> FALSE, value |-> << >>]

cancelJob(r) == [threw |-> FALSE, value |-> r.ok]

Methods == { "uploadFile", "createBatchJob", "checkBatchStatus",
             "downloadBatchResults", "listJobs", "listFiles", "cancelJob" }

\* the error of getProvider
notInitialized == "Gemini provider is not initialized"

\* mutant: the provider is used without the null check
getProviderUnchecked(p) == [threw |-> FALSE]

\* BatchProcessor.getProvider on the value p of this.provider
getProvider(p) == [threw |-> p = NoProvider]

\* ---------------------------------------------------------- monitorBatchJob
\* mutant: "cancelled" is missing from the list
failureStatusesNoCancelled == {failed, expired, error}

failureStatuses == {failed, expired, cancelled, error}

\* mutant: an unavailable status is retried after the sleep
monitorBranchRetriesNull(status) ==
  IF status = completed THEN "download"
  ELSE IF status # null /\ status \in failureStatuses THEN "failed"
  ELSE "sleep"

\* mutant: the results are fetched after a failure status as well
monitorBranchFetchesFailed(status) ==
  IF status = completed THEN "download"
  ELSE IF status # null /\ status \in failureStatuses THEN "download"
  ELSE IF status = null THEN "unretrievable"
  ELSE "sleep"

\* mutant: a status outside the known in-progress values ends the loop
monitorBranchStrict(status) ==
  IF status = completed THEN "download"
  ELSE IF status = null THEN "unretrievable"
  ELSE IF status \in {queued, running} THEN "sleep"
  ELSE "failed"

\* the branch monitorBatchJob takes on a status
monitorBranch(status) ==
  IF status = completed THEN "download"
  ELSE IF status # null /\ status \in failureStatuses THEN "failed"
  ELSE IF status = null THEN "unretrievable"
  ELSE "sleep"

\* mutant: the loop gives up after three statuses
whileFewerThanThree(n) == n < 3

\* `while (true)`, evaluated after n statuses
whileTrue(n) == TRUE

\* mutant: the interval is kept in one place for all monitors
intervalShared(k) == Files

\* `let checkInterval`: the monitors whose interval the monitor of file k updates
intervalScope(k) == {k}

\* the result returned on a failure status or an unavailable status
failedResult(id) == [jobId |-> id, success |-> FALSE, outputFilePath |-> NoPath]

\* mutant: the result reports the remote success, whatever the download returned
downloadResultIgnoresDownload(id, outputDir, success) ==
  [jobId |-> id, success |-> TRUE, outputFilePath |-> outputFile(outputDir, id)]

\* mutant: the path is reported whether or not the download succeeded
downloadResultKeepsPath(id, outputDir, success) ==
  [jobId |-> id, success |-> success, outputFilePath |-> outputFile(outputDir, id)]

\* the result returned after the download
downloadResult(id, outputDir, success) ==
  [jobId |-> id, success |-> success,
   outputFilePath |-> IF success THEN outputFile(outputDir, id) ELSE NoPath]

\* config.getConfig().checkInterval * 1000, in 1/Den ms
initialInterval == config.checkInterval * 1000 * Den

\* mutant: the interval grows without the cap
nextIntervalUncapped(ci) == (ci * 3) \div 2

\* Math.min(checkInterval * 1.5, maxInterval), in 1/Den ms
nextInterval(ci) == Min((ci * 3) \div 2, maxInterval * Den)

\* re-polls issued so far, all jobs together
Repolls == LET RECURSIVE sum(_)
               sum(k) == IF k = 0 THEN 0 ELSE Max(Len(statusLog[k]) - 1, 0) + sum(k - 1)
           IN sum(Len(inputFiles))

\* a service whose jobs stay RUNNING until they are COMPLETED
BackoffStates == { RAW_RUNNING, COMPLETED }

\* a service whose jobs stay QUEUED until they are COMPLETED or FAILED
DrainStates == { RAW_QUEUED, COMPLETED, RAW_FAILED }

\* the bound on the re-polls explored in this run
RepollBound ==
  IF remoteStates \in {BackoffStates, DrainStates} THEN MaxBackoffRepolls
  ELSE IF Len(inputFiles) = 1 THEN MaxRepolls
  ELSE MaxBatchRepolls

\* ------------------------------------------------------------------- state
CheckIntervals == {5, DefaultCheckInterval, 90}

\* processInputs has not been called
InitRun ==
  /\ inputFiles = << >>
  /\ nextPath = 0
  /\ warnings = << >>
  /\ ppc = "called"
  /\ i = 0
  /\ results = << >>
  /\ resultFiles = << >>
  /\ pc = [k \in Files |-> "idle"]
  /\ fileId = [k \in Files |-> ""]
  /\ batchJob = [k \in Files |-> ""]
  /\ checkInterval = [k \in Files |-> 0]
  /\ result = [k \in Files |-> NoResult]
  /\ uploadCalls = [k \in Files |-> 0]
  /\ createCalls = [k \in Files |-> 0]
  /\ downloadCalls = [k \in Files |-> 0]
  /\ statusLog = [k \in Files |-> << >>]
  /\ downloadLog = [k \in Files |-> << >>]
  /\ sleepLog = [k \in Files |-> << >>]
  /\ callLog = [k \in Files |-> << >>]
  /\ job = [k \in Files |-> NoJob]
  /\ doneLog = << >>
  /\ nextJob = 0
  /\ disk = {}

\* a BatchProcessor constructed with an API key, no variable in the
\* environment, no config file, no command run
InitTasks ==
  /\ provider = GeminiProvider
  /\ cpc = "idle"
  /\ InitRun
  /\ env = NoEnv
  /\ configFile = NoFile
  /\ opLog = << >>
  /\ jd = NoDownload
  /\ cmd = NoCommand
  /\ recordOrder = FALSE

\* a run of `job submit` over 1..MaxFiles eligible files with a limit of
\* 1..MaxConcurrency, against a service that reports RUNNING, COMPLETED, FAILED
Init ==
  /\ inputPaths \in { SubSeq(InputNames, 1, n) : n \in 1..MaxFiles }
  /\ maxConcurrentJobs \in 1..MaxConcurrency
  /\ config = [checkInterval |-> 5, maxConcurrentJobs |-> DefaultMaxConcurrentJobs]
  /\ remoteStates = RawStatesCore
  /\ faults = TRUE
  /\ createStates = {JOB_STATE_PENDING}
  /\ InitTasks

\* a run over one file, against a service that reports any of RawStates, with
\* each of the configured check intervals
InitMonitor ==
  /\ inputPaths = SubSeq(InputNames, 1, 1)
  /\ maxConcurrentJobs = 0
  /\ config \in [checkInterval : CheckIntervals,
                 maxConcurrentJobs : {DefaultMaxConcurrentJobs}]
  /\ remoteStates = RawStates
  /\ faults = TRUE
  /\ createStates = {JOB_STATE_PENDING}
  /\ InitTasks

\* the input paths a run of the expansion is given: a directory with eligible
\* files, one of its files, a file outside it, a file with another extension,
\* a directory without eligible files and a path that does not exist
PathChoices ==
  { DataDir, <<data, a_jsonl>>, <<e_jsonl>>, <<notes_txt>>, DocsDir, <<gone_jsonl>> }

\* a service whose jobs are QUEUED until they are COMPLETED
QueueStates == { RAW_QUEUED, COMPLETED }

\* a run over up to MaxPaths input paths with a limit of 1, against a service
\* whose calls succeed
InitExpand ==
  /\ inputPaths \in UNION { [1..n -> PathChoices] : n \in 0..MaxPaths }
  /\ maxConcurrentJobs = 1
  /\ config = [checkInterval |-> 5, maxConcurrentJobs |-> DefaultMaxConcurrentJobs]
  /\ remoteStates = QueueStates
  /\ faults = FALSE
  /\ createStates = {JOB_STATE_PENDING}
  /\ InitTasks

\* a run over one file with the check interval of 5 seconds, against a service
\* whose job stays RUNNING for up to MaxBackoffRepolls re-polls
InitBackoff ==
  /\ inputPaths = SubSeq(InputNames, 1, 1)
  /\ maxConcurrentJobs = 0
  /\ config = [checkInterval |-> 5, maxConcurrentJobs |-> DefaultMaxConcurrentJobs]
  /\ remoteStates = BackoffStates
  /\ faults = TRUE
  /\ createStates = {JOB_STATE_PENDING}
  /\ InitTasks

\* a run over one to three eligible files with a limit of 1 or 2, against a
\* service that reports RUNNING, COMPLETED, FAILED
InitLive ==
  /\ inputPaths \in { SubSeq(InputNames, 1, n) : n \in 1..3 }
  /\ maxConcurrentJobs \in 1..2
  /\ config = [checkInterval |-> 5, maxConcurrentJobs |-> DefaultMaxConcurrentJobs]
  /\ remoteStates = RawStatesCore
  /\ faults = TRUE
  /\ createStates = {JOB_STATE_PENDING}
  /\ InitTasks

\* a run over one to five eligible files with a limit of 1..MaxConcurrency,
\* against a service whose calls succeed
InitSlices ==
  /\ inputPaths \in { SubSeq(InputNames, 1, n) : n \in 1..Len(InputNames) }
  /\ maxConcurrentJobs \in 1..MaxConcurrency
  /\ config = [checkInterval |-> 5, maxConcurrentJobs |-> DefaultMaxConcurrentJobs]
  /\ remoteStates = QueueStates
  /\ faults = FALSE
  /\ createStates = {JOB_STATE_PENDING}
  /\ InitTasks

\* a run over one or two files, dispatched together, during which the caller
\* may call close
InitClose ==
  /\ inputPaths \in { SubSeq(InputNames, 1, n) : n \in 1..2 }
  /\ maxConcurrentJobs = 0
  /\ config = [checkInterval |-> 5, maxConcurrentJobs |-> DefaultMaxConcurrentJobs]
  /\ remoteStates = RawStatesCore
  /\ faults = TRUE
  /\ createStates = {JOB_STATE_PENDING}
  /\ InitTasks

\* a run over two files with a limit of 1, against a service whose jobs stay
\* QUEUED for up to MaxBackoffRepolls re-polls
InitDrain ==
  /\ inputPaths = SubSeq(InputNames, 1, 2)
  /\ maxConcurrentJobs = 1
  /\ config = [checkInterval |-> 5, maxConcurrentJobs |-> DefaultMaxConcurrentJobs]
  /\ remoteStates = DrainStates
  /\ faults = TRUE
  /\ createStates = {JOB_STATE_PENDING}
  /\ InitTasks

\* a run over one or two files, dispatched together, against a service whose
\* new job is pending, has no state yet or is already COMPLETED
InitJob ==
  /\ inputPaths \in { SubSeq(InputNames, 1, n) : n \in 1..2 }
  /\ maxConcurrentJobs = 0
  /\ config = [checkInterval |-> 5, maxConcurrentJobs |-> DefaultMaxConcurrentJobs]
  /\ remoteStates = RawStatesCore
  /\ faults = TRUE
  /\ createStates = {JOB_STATE_PENDING, NoState, COMPLETED}
  /\ InitTasks

\* a run over two or three files with a limit of 2, against a service whose
\* calls succeed, in which the order of completion is recorded
InitOrder ==
  /\ inputPaths \in { SubSeq(InputNames, 1, n) : n \in 2..MaxFiles }
  /\ maxConcurrentJobs = 2
  /\ config = [checkInterval |-> 5, maxConcurrentJobs |-> DefaultMaxConcurrentJobs]
  /\ remoteStates = RawStatesCore
  /\ faults = FALSE
  /\ createStates = {JOB_STATE_PENDING}
  /\ provider = GeminiProvider
  /\ cpc = "idle"
  /\ InitRun
  /\ env = NoEnv
  /\ configFile = NoFile
  /\ opLog = << >>
  /\ jd = NoDownload
  /\ cmd = NoCommand
  /\ recordOrder = TRUE

\* a run over one or two files with a positive, absent (0) or negative
\* maxConcurrentJobs
InitLoop ==
  /\ inputPaths \in { SubSeq(InputNames, 1, n) : n \in 1..2 }
  /\ maxConcurrentJobs \in (-MaxConcurrency)..MaxConcurrency
  /\ config = [checkInterval |-> 5, maxConcurrentJobs |-> DefaultMaxConcurrentJobs]
  /\ remoteStates = RawStatesCore
  /\ faults = TRUE
  /\ createStates = {JOB_STATE_PENDING}
  /\ InitTasks

\* the configuration files and environments the config commands start from
StoredJson ==
  [gemini : {<< >>} \cup
            { <<g>> : g \in [apiKey : {undefined, "", "key-0"},
                             model : {undefined, "gemini-pro"}] },
   maxConcurrentJobs : {<< >>, <<2>>},
   checkInterval : {<< >>, <<10>>}]

InitConfig ==
  /\ inputPaths = << >>
  /\ maxConcurrentJobs = 0
  /\ config = ConfigSchemaParse(NoJson)
  /\ remoteStates = RawStatesCore
  /\ faults = TRUE
  /\ createStates = {JOB_STATE_PENDING}
  /\ recordOrder = FALSE
  /\ provider = GeminiProvider
  /\ cpc = "idle"
  /\ InitRun
  /\ env \in [GEMINI_API_KEY : {undefined, "", "env-1"},
              GOOGLE_GENERATIVE_AI_API_KEY : {undefined, "", "env-2"}]
  /\ configFile \in {NoFile, InvalidFile} \cup [kind : {"json"}, json : StoredJson]
  /\ opLog = << >>
  /\ jd = NoDownload
  /\ cmd = NoCommand

\* the command `job download` is about to run
InitDownload ==
  /\ inputPaths = << >>
  /\ maxConcurrentJobs = 0
  /\ config = [checkInterval |-> 5, maxConcurrentJobs |-> DefaultMaxConcurrentJobs]
  /\ remoteStates = RawStatesCore
  /\ faults = TRUE
  /\ createStates = {JOB_STATE_PENDING}
  /\ InitTasks

\* a freshly constructed BatchProcessor, with or without an API key in the
\* configuration and the environment, on which the commands call operations
InitOps ==
  /\ inputPaths = << >>
  /\ maxConcurrentJobs = 0
  /\ config \in [gemini : [apiKey : {undefined, "", "key-1"}, model : {DEFAULT_MODE}],
                 maxConcurrentJobs : {DefaultMaxConcurrentJobs},
                 checkInterval : {DefaultCheckInterval}]
  /\ env \in [GEMINI_API_KEY : {undefined, "key-2"},
              GOOGLE_GENERATIVE_AI_API_KEY : {undefined}]
  /\ remoteStates = RawStatesCore
  /\ faults = TRUE
  /\ createStates = {JOB_STATE_PENDING}
  /\ provider = initializeProvider(config, env)
  /\ cpc = "idle"
  /\ InitRun
  /\ configFile = NoFile
  /\ opLog = << >>
  /\ jd = NoDownload
  /\ cmd = NoCommand
  /\ recordOrder = FALSE

\* ----------------------------------------------------------------- actions
\* processInputs is called: the mkdir of the output directory completes and the
\* fs.stat of the first input path is issued; without an input path the loops
\* are empty and the empty list is returned
ProcessInputs(mkdirOk) ==
  /\ UNCHANGED cli
  /\ ppc = "called"
  /\ UNCHANGED <<params, provider, cpc, inputFiles, i, results, resultFiles, pc,
                 fileId, batchJob, checkInterval, result, uploadCalls,
                 createCalls, downloadCalls, statusLog, downloadLog, sleepLog,
                 callLog, job, doneLog, nextJob>>
  /\ IF ~mkdirOk /\ mkdirThrows.throws
     THEN /\ ppc' = "rejected"
          /\ UNCHANGED <<disk, nextPath, warnings>>
     ELSE /\ disk' = IF mkdirOk THEN disk \cup {dirPath(OutputDir)} ELSE disk
          /\ IF Len(inputPaths) = 0
             THEN /\ ppc' = "returned"
                  /\ warnings' = Append(warnings, noFilesWarning)
                  /\ UNCHANGED nextPath
             ELSE /\ ppc' = "expand"
                  /\ nextPath' = 1
                  /\ UNCHANGED warnings

\* the fs.stat of the next input path completes (with the fs.readdir that
\* follows it for a directory): the path is expanded, and after the last path
\* the empty list is returned or the first batch is dispatched
StatReturns ==
  /\ UNCHANGED cli
  /\ ppc = "expand"
  /\ UNCHANGED <<params, provider, cpc, i, results, resultFiles, nextJob, disk>>
  /\ LET path == inputPaths[nextPath] IN
     IF stat(path) = "ENOENT"
     THEN /\ ppc' = "rejected"
          /\ UNCHANGED <<inputFiles, nextPath, warnings, pc, fileId, batchJob,
                         checkInterval, result, uploadCalls, createCalls,
                         downloadCalls, statusLog, downloadLog, sleepLog,
                         callLog, job>>
     ELSE LET e == expandPath(path)
              warned == IF e.warned THEN Append(warnings, skipWarning(path))
                        ELSE warnings
          IN /\ inputFiles' = inputFiles \o e.files
             /\ fileId' = [k \in Files' |-> ""]
             /\ batchJob' = [k \in Files' |-> ""]
             /\ checkInterval' = [k \in Files' |-> 0]
             /\ createCalls' = [k \in Files' |-> 0]
             /\ downloadCalls' = [k \in Files' |-> 0]
             /\ statusLog' = [k \in Files' |-> << >>]
             /\ downloadLog' = [k \in Files' |-> << >>]
             /\ sleepLog' = [k \in Files' |-> << >>]
             /\ job' = [k \in Files' |-> NoJob]
             /\ IF nextPath < Len(inputPaths)
                THEN /\ nextPath' = nextPath + 1
                     /\ ppc' = "expand"
                     /\ warnings' = warned
                     /\ dispatch({})
                ELSE /\ UNCHANGED nextPath
                     /\ IF Len(inputFiles') = 0
                        THEN /\ ppc' = "returned"
                             /\ warnings' = Append(warned, noFilesWarning)
                             /\ dispatch({})
                        ELSE /\ ppc' = "await"
                             /\ warnings' = warned
                             /\ dispatch(batch(0)')
  /\ Finish

\* `await Promise.all(batchPromises)` settles: the results are pushed and the
\* loop goes on to the next batch, or processInputs returns
BatchSettles ==
  /\ UNCHANGED cli
  /\ ppc = "await"
  /\ UNCHANGED <<params, provider, cpc, inputFiles, nextPath, warnings, fileId,
                 batchJob, checkInterval, createCalls, downloadCalls,
                 statusLog, downloadLog, sleepLog, job, nextJob, disk>>
  /\ IF anyRejected(batch(i))
     THEN /\ ppc' = "rejected"
          /\ UNCHANGED <<i, results, resultFiles, pc, result, uploadCalls,
                         callLog>>
     ELSE /\ allFulfilled(batch(i))
          /\ results' = results \o [n \in 1..Cardinality(batch(i)) |->
                                      result[inOrder(batch(i))[n]]]
          /\ resultFiles' = resultFiles \o inOrder(batch(i))
          /\ i' = i + concurrency
          /\ IF i' < Len(inputFiles)
             THEN /\ ppc' = "await"
                  /\ dispatch(batch(i'))
             ELSE /\ ppc' = "returned"
                  /\ UNCHANGED <<pc, result, uploadCalls, callLog>>
  /\ Finish

\* client.files.upload of file k completes; createBatchJob is called next,
\* through getProvider
UploadReturns(k, ok) ==
  /\ UNCHANGED cli
  /\ pc[k] = "upload"
  /\ UNCHANGED <<params, provider, cpc, inputFiles, nextPath, warnings, ppc, i,
                 results, resultFiles, batchJob, checkInterval, uploadCalls,
                 downloadCalls, statusLog, downloadLog, sleepLog, job, nextJob,
                 disk>>
  /\ IF ok
     THEN /\ fileId' = [fileId EXCEPT ![k] = UploadNames[k]]
          /\ IF provider = NoProvider
             THEN /\ pc' = [pc EXCEPT ![k] = processFileCatch.pc]
                  /\ result' = [result EXCEPT ![k] = processFileCatch.result]
                  /\ UNCHANGED <<createCalls, callLog>>
             ELSE /\ createCalls' = [createCalls EXCEPT ![k] = @ + 1]
                  /\ callLog' = [callLog EXCEPT ![k] = Append(@, createCall(fileId'[k]))]
                  /\ pc' = [pc EXCEPT ![k] = "create"]
                  /\ UNCHANGED result
     ELSE /\ pc' = [pc EXCEPT ![k] = processFileCatch.pc]
          /\ result' = [result EXCEPT ![k] = processFileCatch.result]
          /\ UNCHANGED <<fileId, createCalls, callLog>>
  /\ Finish

\* client.batches.create for file k completes; with a job, monitorBatchJob
\* starts and calls checkBatchStatus through getProvider
CreateReturns(k, ok, state) ==
  /\ UNCHANGED cli
  /\ pc[k] = "create"
  /\ UNCHANGED <<params, provider, cpc, inputFiles, nextPath, warnings, ppc, i,
                 results, resultFiles, fileId, uploadCalls, createCalls,
                 downloadCalls, statusLog, downloadLog, sleepLog, disk>>
  /\ IF ok
     THEN /\ nextJob' = nextJob + 1
          /\ batchJob' = [batchJob EXCEPT ![k] = JobNames[nextJob']]
          /\ job' = [job EXCEPT ![k] = createdJob(state, fileId[k])]
          /\ checkInterval' = [checkInterval EXCEPT ![k] = initialInterval]
          /\ IF provider = NoProvider
             THEN /\ pc' = [pc EXCEPT ![k] = processFileCatch.pc]
                  /\ result' = [result EXCEPT ![k] = processFileCatch.result]
                  /\ UNCHANGED callLog
             ELSE /\ pc' = [pc EXCEPT ![k] = "poll"]
                  /\ callLog' = [callLog EXCEPT ![k] = Append(@, statusCall(batchJob'[k]))]
                  /\ UNCHANGED result
     ELSE /\ pc' = [pc EXCEPT ![k] = processFileNoJob.pc]
          /\ result' = [result EXCEPT ![k] = processFileNoJob.result]
          /\ UNCHANGED <<nextJob, batchJob, job, checkInterval, callLog>>
  /\ Finish

\* the client.batches.get of checkBatchStatus for file k completes; on the
\* success value downloadBatchResults is called through getProvider
StatusReturns(k, r) ==
  /\ UNCHANGED cli
  /\ pc[k] = "poll"
  /\ UNCHANGED <<params, provider, cpc, inputFiles, nextPath, warnings, ppc, i,
                 results, resultFiles, fileId, batchJob, checkInterval,
                 uploadCalls, createCalls, downloadLog, job, nextJob, disk>>
  /\ statusLog' = [statusLog EXCEPT ![k] = Append(@, checkBatchStatus(r))]
  /\ LET branch == monitorBranch(checkBatchStatus(r)) IN
       CASE branch = "download" /\ provider = NoProvider ->
              /\ pc' = [pc EXCEPT ![k] = processFileCatch.pc]
              /\ result' = [result EXCEPT ![k] = processFileCatch.result]
              /\ UNCHANGED <<downloadCalls, sleepLog, callLog>>
         [] branch = "download" /\ provider # NoProvider ->
              /\ downloadCalls' = [downloadCalls EXCEPT ![k] = @ + 1]
              /\ callLog' = [callLog EXCEPT ![k] =
                               Append(@, downloadCall(batchJob[k],
                                                      outputFile(OutputDir, batchJob[k])))]
              /\ pc' = [pc EXCEPT ![k] = "download"]
              /\ UNCHANGED <<result, sleepLog>>
         [] branch \in {"failed", "unretrievable"} ->
              /\ result' = [result EXCEPT ![k] = failedResult(batchJob[k])]
              /\ pc' = [pc EXCEPT ![k] = "done"]
              /\ UNCHANGED <<downloadCalls, sleepLog, callLog>>
         [] OTHER ->
              /\ sleepLog' = [sleepLog EXCEPT ![k] = Append(@, checkInterval[k])]
              /\ pc' = [pc EXCEPT ![k] = "sleep"]
              /\ UNCHANGED <<downloadCalls, result, callLog>>
  /\ Finish

\* the backoff timer of file k fires: the interval grows and the next status
\* request is issued through getProvider
TimerFires(k) ==
  /\ UNCHANGED cli
  /\ pc[k] = "sleep"
  /\ checkInterval' = [j \in Files |->
                          IF j \in intervalScope(k) THEN nextInterval(checkInterval[j])
                          ELSE checkInterval[j]]
  /\ IF ~whileTrue(Len(statusLog[k]))
     THEN /\ pc' = [pc EXCEPT ![k] = "done"]
          /\ result' = [result EXCEPT ![k] = failedResult(batchJob[k])]
          /\ UNCHANGED callLog
     ELSE IF provider = NoProvider
     THEN /\ pc' = [pc EXCEPT ![k] = processFileCatch.pc]
          /\ result' = [result EXCEPT ![k] = processFileCatch.result]
          /\ UNCHANGED callLog
     ELSE /\ pc' = [pc EXCEPT ![k] = "poll"]
          /\ callLog' = [callLog EXCEPT ![k] = Append(@, statusCall(batchJob[k]))]
          /\ UNCHANGED result
  /\ UNCHANGED <<params, provider, cpc, inputFiles, nextPath, warnings, ppc, i,
                 results, resultFiles, fileId, batchJob, uploadCalls,
                 createCalls, downloadCalls, statusLog, downloadLog, sleepLog,
                 job, nextJob, disk>>
  /\ Finish

\* the timer fires, within the bound on the re-polls explored
SleepElapses(k) ==
  /\ Repolls < RepollBound
  /\ TimerFires(k)

\* the client.batches.get of downloadBatchResults for file k completes
DownloadReturns(k, r) ==
  /\ UNCHANGED cli
  /\ pc[k] = "download"
  /\ downloadLog' = [downloadLog EXCEPT ![k] = Append(@, downloadBatchResults(r))]
  /\ result' = [result EXCEPT ![k] =
                  downloadResult(batchJob[k], OutputDir, downloadBatchResults(r))]
  /\ pc' = [pc EXCEPT ![k] = "done"]
  /\ UNCHANGED <<params, provider, cpc, inputFiles, nextPath, warnings, ppc, i,
                 results, resultFiles, fileId, batchJob, checkInterval,
                 uploadCalls, createCalls, downloadCalls, statusLog, sleepLog,
                 callLog, job, nextJob, disk>>
  /\ Finish

\* close is called: provider.close() is awaited when there is a provider
Close ==
  /\ UNCHANGED cli
  /\ cpc = "idle"
  /\ cpc' = IF provider # NoProvider THEN "await" ELSE "returned"
  /\ UNCHANGED <<params, provider, run>>

\* provider.close() has returned: the provider is dropped
CloseReturns ==
  /\ UNCHANGED cli
  /\ cpc = "await"
  /\ provider' = NoProvider
  /\ cpc' = "returned"
  /\ UNCHANGED <<params, run>>

\* one operation of the BatchProcessor, called from a command: getProvider,
\* then the provider's method, whose client call has the outcome r
Operation(method, completion, r) ==
  /\ Len(opLog) < MaxOps
  /\ opLog' = Append(opLog,
       IF getProvider(provider).threw
       THEN [method |-> method, remote |-> FALSE, clientOk |-> FALSE,
             threw |-> TRUE, value |-> notInitialized]
       ELSE [method |-> method, remote |-> TRUE, clientOk |-> r.ok,
             threw |-> completion.threw, value |-> completion.value])
  /\ UNCHANGED <<params, provider, cpc, run, env, configFile, jd, cmd>>

UploadFile(r) == Operation("uploadFile", uploadFile(r), r)

CreateBatchJob(r) ==
  Operation("createBatchJob", createBatchJob(r, UploadNames[1]), r)

CheckBatchStatus(r) ==
  Operation("checkBatchStatus", [threw |-> FALSE, value |-> checkBatchStatus(r)], r)

DownloadBatchResults(r) ==
  Operation("downloadBatchResults",
            [threw |-> FALSE, value |-> downloadBatchResults(r)], r)

ListJobs(r) == Operation("listJobs", listItems(r), r)

ListFiles(r) == Operation("listFiles", listItems(r), r)

CancelJob(r) == Operation("cancelJob", cancelJob(r), r)

\* client calls that return nothing the method uses, or throw
PlainOutcomes == [ok : BOOLEAN]

\* client.batches.create: a job in one of createStates, or an error
CreateOutcomes == [ok : {FALSE}, state : {NoState}] \cup [ok : {TRUE}, state : createStates]

\* client.batches.list and client.files.list: a pager over no or one item, or
\* an error
ListOutcomes == [ok : {FALSE}, items : {<< >>}] \cup
                [ok : {TRUE}, items : {<< >>, <<JobNames[1]>>}]

\* the operations the commands call on one BatchProcessor, and its close
NextOps ==
  \/ \E r \in PlainOutcomes : UploadFile(r)
  \/ \E r \in CreateOutcomes : CreateBatchJob(r)
  \/ \E r \in GetOutcomes : CheckBatchStatus(r)
  \/ \E r \in GetOutcomes : DownloadBatchResults(r)
  \/ \E r \in ListOutcomes : ListJobs(r)
  \/ \E r \in ListOutcomes : ListFiles(r)
  \/ \E r \in PlainOutcomes : CancelJob(r)
  \/ Close
  \/ CloseReturns

SpecOps == InitOps /\ [][NextOps]_vars

\* the `return null` of handleJobDownload: the finally block calls close
downloadFails == [pc |-> "close", ret |-> "null"]

\* handleJobDownload(jobId, {output}) is called: getJob is awaited
HandleJobDownload(jobId, output) ==
  /\ jd.pc = "idle"
  /\ jd' = [jd EXCEPT !.pc = "getJob", !.jobId = jobId, !.output = output]
  /\ UNCHANGED <<params, provider, cpc, run, env, configFile, opLog, cmd>>

\* getJob has settled: without a succeeded job null is returned; otherwise the
\* output path is looked at (fs.stat) or, without --output, the directory of
\* the default file is created (fs.mkdir)
GetJobReturns(o) ==
  /\ jd.pc = "getJob"
  /\ jd' = IF ~succeededJob(o)
           THEN [jd EXCEPT !.job = o, !.pc = downloadFails.pc,
                           !.ret = downloadFails.ret, !.closes = @ + 1]
           ELSE IF jd.output # NoOutput
           THEN [jd EXCEPT !.job = o, !.pc = "stat"]
           ELSE [jd EXCEPT !.job = o, !.pc = "mkdir",
                           !.outputFile = downloadTarget(jd.output, jd.jobId)]
  /\ UNCHANGED <<params, provider, cpc, run, env, configFile, opLog, cmd>>

\* fs.stat(outputPath) has settled: outputFile is chosen and the directory it
\* is in is created
OutputStatReturns ==
  /\ jd.pc = "stat"
  /\ jd' = [jd EXCEPT !.pc = "mkdir",
                      !.outputFile = downloadTarget(jd.output, jd.jobId)]
  /\ UNCHANGED <<params, provider, cpc, run, env, configFile, opLog, cmd>>

\* fs.mkdir(dirname(outputFile)) has settled: downloadJobResults is called, or
\* the error is caught and null returned
OutputMkdirReturns(ok) ==
  /\ jd.pc = "mkdir"
  /\ jd' = IF ok
           THEN [jd EXCEPT !.pc = "download", !.created = @ \cup {jd.outputFile.dir},
                           !.downloads = @ + 1]
           ELSE [jd EXCEPT !.pc = downloadFails.pc, !.ret = downloadFails.ret,
                           !.closes = @ + 1]
  /\ UNCHANGED <<params, provider, cpc, run, env, configFile, opLog, cmd>>

\* downloadJobResults has settled: outputFile or null is returned, and the
\* finally block calls close
DownloadJobResultsReturns(o) ==
  /\ jd.pc = "download"
  /\ jd' = [jd EXCEPT !.pc = "close", !.closes = @ + 1,
                      !.ret = IF o = "true" THEN "outputFile" ELSE downloadFails.ret]
  /\ UNCHANGED <<params, provider, cpc, run, env, configFile, opLog, cmd>>

\* processor.close() has settled: handleJobDownload returns
HandlerCloseReturns ==
  /\ jd.pc = "close"
  /\ jd' = [jd EXCEPT !.pc = "returned"]
  /\ UNCHANGED <<params, provider, cpc, run, env, configFile, opLog, cmd>>

NextDownload ==
  \/ \E jobId \in {JobNames[1], JobNames[2]}, output \in Outputs :
       HandleJobDownload(jobId, output)
  \/ \E o \in GetJobOutcomes : GetJobReturns(o)
  \/ OutputStatReturns
  \/ \E ok \in BOOLEAN : OutputMkdirReturns(ok)
  \/ \E o \in DownloadJobOutcomes : DownloadJobResultsReturns(o)
  \/ HandlerCloseReturns

SpecDownload == InitDownload /\ [][NextDownload]_vars

\* `config set-key <key>` starts in a new process: the Config is constructed
\* with the defaults and handleConfigSetKey awaits config.load()
HandleConfigSetKey(key) ==
  /\ cmd.pc \in {"idle", "returned"}
  /\ Len(cmd.log) < MaxCommands
  /\ config' = ConfigSchemaParse(NoJson)
  /\ cmd' = [cmd EXCEPT !.pc = "load", !.log = Append(@, "set-key"), !.key = key,
                        !.reported = FALSE, !.before = load(configFile)]
  /\ UNCHANGED <<inputPaths, maxConcurrentJobs, remoteStates, faults,
                 createStates, recordOrder, provider, cpc, run, env, configFile,
                 opLog, jd>>

\* `config list` starts in a new process: handleConfigList awaits config.load()
HandleConfigList ==
  /\ cmd.pc \in {"idle", "returned"}
  /\ Len(cmd.log) < MaxCommands
  /\ config' = ConfigSchemaParse(NoJson)
  /\ cmd' = [cmd EXCEPT !.pc = "load", !.log = Append(@, "list")]
  /\ UNCHANGED <<inputPaths, maxConcurrentJobs, remoteStates, faults,
                 createStates, recordOrder, provider, cpc, run, env, configFile,
                 opLog, jd>>

\* config.load() has settled. handleConfigSetKey sets the key and awaits the
\* fs.mkdir of config.save(); handleConfigList prints getApiKey() and returns
ConfigLoadReturns ==
  /\ cmd.pc = "load"
  /\ IF cmd.log[Len(cmd.log)] = "set-key"
     THEN /\ config' = setApiKey(load(configFile), cmd.key)
          /\ cmd' = [cmd EXCEPT !.pc = "mkdir"]
     ELSE /\ config' = load(configFile)
          /\ cmd' = [cmd EXCEPT !.pc = "returned",
                                !.shown = getApiKey(config', env)]
  /\ UNCHANGED <<inputPaths, maxConcurrentJobs, remoteStates, faults,
                 createStates, recordOrder, provider, cpc, run, env, configFile,
                 opLog, jd>>

\* the fs.mkdir of config.save() has settled: fs.writeFile is awaited, or the
\* error is logged by save and handleConfigSetKey reports success
ConfigMkdirReturns(ok) ==
  /\ cmd.pc = "mkdir"
  /\ cmd' = IF ok THEN [cmd EXCEPT !.pc = "write"]
            ELSE [cmd EXCEPT !.pc = "returned", !.reported = TRUE]
  /\ UNCHANGED <<params, provider, cpc, run, env, configFile, opLog, jd>>

\* the fs.writeFile of config.save() has settled: the file is written, or the
\* error is logged by save; handleConfigSetKey reports success
ConfigWriteReturns(ok) ==
  /\ cmd.pc = "write"
  /\ configFile' = IF ok THEN save(config) ELSE configFile
  /\ cmd' = [cmd EXCEPT !.pc = "returned", !.reported = TRUE]
  /\ UNCHANGED <<params, provider, cpc, run, env, opLog, jd>>

NextConfig ==
  \/ \E key \in {"key-1", "key-2"} : HandleConfigSetKey(key)
  \/ HandleConfigList
  \/ ConfigLoadReturns
  \/ \E ok \in BOOLEAN : ConfigMkdirReturns(ok)
  \/ \E ok \in BOOLEAN : ConfigWriteReturns(ok)

SpecConfig == InitConfig /\ [][NextConfig]_vars

Next ==
  \/ \E mkdirOk \in BOOLEAN : ProcessInputs(mkdirOk)
  \/ StatReturns
  \/ BatchSettles
  \/ \E k \in Files, ok \in CallOutcomes : UploadReturns(k, ok)
  \/ \E k \in Files, ok \in CallOutcomes, state \in createStates :
       CreateReturns(k, ok, state)
  \/ \E k \in Files, r \in GetOutcomes : StatusReturns(k, r)
  \/ \E k \in Files : SleepElapses(k)
  \/ \E k \in Files, r \in GetOutcomes : DownloadReturns(k, r)

Spec == Init /\ [][Next]_vars

SpecMonitor == InitMonitor /\ [][Next]_vars

SpecExpand == InitExpand /\ [][Next]_vars

SpecBackoff == InitBackoff /\ [][Next]_vars

SpecSlices == InitSlices /\ [][Next]_vars

SpecDrain == InitDrain /\ [][Next]_vars

SpecJob == InitJob /\ [][Next]_vars

SpecOrder == InitOrder /\ [][Next]_vars

\* an answer of client.batches.get after which the monitor stops: the call
\* threw, or the state is the success value or a failure value
ReportsTerminal(r) ==
  \/ ~r.ok
  \/ normalizeStatus(r.state) \in {completed} \cup failureStatuses

\* the runs in which every job reports a terminal status after at most
\* RepollBound other answers, and in which every pending file-system call,
\* remote call and timer completes
NextLive ==
  \/ \E mkdirOk \in BOOLEAN : ProcessInputs(mkdirOk)
  \/ StatReturns
  \/ BatchSettles
  \/ \E k \in Files, ok \in CallOutcomes : UploadReturns(k, ok)
  \/ \E k \in Files, ok \in CallOutcomes, state \in createStates :
       CreateReturns(k, ok, state)
  \/ \E k \in Files, r \in GetOutcomes :
       /\ ReportsTerminal(r) \/ Len(statusLog[k]) < RepollBound
       /\ StatusReturns(k, r)
  \/ \E k \in Files : TimerFires(k)
  \/ \E k \in Files, r \in GetOutcomes : DownloadReturns(k, r)

Fairness ==
  /\ WF_vars(\E mkdirOk \in BOOLEAN : ProcessInputs(mkdirOk))
  /\ WF_vars(StatReturns)
  /\ WF_vars(BatchSettles)
  /\ WF_vars(\E k \in Files, ok \in CallOutcomes : UploadReturns(k, ok))
  /\ WF_vars(\E k \in Files, ok \in CallOutcomes, state \in createStates :
               CreateReturns(k, ok, state))
  /\ WF_vars(\E k \in Files, r \in GetOutcomes :
               /\ ReportsTerminal(r) \/ Len(statusLog[k]) < RepollBound
               /\ StatusReturns(k, r))
  /\ WF_vars(\E k \in Files : TimerFires(k))
  /\ WF_vars(\E k \in Files, r \in GetOutcomes : DownloadReturns(k, r))

SpecLive == InitLive /\ [][NextLive]_vars /\ Fairness

\* the next turn of the loop of processInputs, followed while the index is
\* above -MaxLoopTurns
LoopTurn ==
  /\ i > -MaxLoopTurns
  /\ BatchSettles

\* the runs of NextLive, for any maxConcurrentJobs
NextLoop ==
  \/ \E mkdirOk \in BOOLEAN : ProcessInputs(mkdirOk)
  \/ StatReturns
  \/ LoopTurn
  \/ \E k \in Files, ok \in CallOutcomes : UploadReturns(k, ok)
  \/ \E k \in Files, ok \in CallOutcomes, state \in createStates :
       CreateReturns(k, ok, state)
  \/ \E k \in Files, r \in GetOutcomes :
       /\ ReportsTerminal(r) \/ Len(statusLog[k]) < RepollBound
       /\ StatusReturns(k, r)
  \/ \E k \in Files : TimerFires(k)
  \/ \E k \in Files, r \in GetOutcomes : DownloadReturns(k, r)

FairnessLoop ==
  /\ WF_vars(\E mkdirOk \in BOOLEAN : ProcessInputs(mkdirOk))
  /\ WF_vars(StatReturns)
  /\ WF_vars(LoopTurn)
  /\ WF_vars(\E k \in Files, ok \in CallOutcomes : UploadReturns(k, ok))
  /\ WF_vars(\E k \in Files, ok \in CallOutcomes, state \in createStates :
               CreateReturns(k, ok, state))
  /\ WF_vars(\E k \in Files, r \in GetOutcomes :
               /\ ReportsTerminal(r) \/ Len(statusLog[k]) < RepollBound
               /\ StatusReturns(k, r))
  /\ WF_vars(\E k \in Files : TimerFires(k))
  /\ WF_vars(\E k \in Files, r \in GetOutcomes : DownloadReturns(k, r))

SpecLoop == InitLoop /\ [][NextLoop]_vars /\ FairnessLoop

\* processInputs with a close() of the same BatchProcessor at any moment
NextClose ==
  \/ Next
  \/ Close
  \/ CloseReturns

SpecClose == InitClose /\ [][NextClose]_vars

\* ------------------------------------------------------------------ claims
Active == { k \in Files : pc[k] \notin {"idle", "done", "rejected"} }

\* C1: when processInputs returns, results holds exactly one entry per input
\* file: as many entries as files, every file the origin of exactly one of them,
\* and each entry the result its file's processFile returned.
C1_OneResultPerFile ==
  ppc = "returned" =>
    /\ Len(results) = Len(inputFiles)
    /\ Len(resultFiles) = Len(results)
    /\ \A k \in Files :
         Cardinality({n \in 1..Len(resultFiles) : resultFiles[n] = k}) = 1
    /\ \A n \in 1..Len(results) :
         /\ pc[resultFiles[n]] = "done"
         /\ results[n] = result[resultFiles[n]]
         /\ results[n] # NoResult

\* a returned run of MaxFiles files in which an upload failed, a creation failed,
\* a job failed and a job succeeded
C1_Witness ==
  /\ ppc = "returned"
  /\ Len(inputFiles) = MaxFiles
  /\ \E n \in 1..Len(results) : results[n].success
  /\ \E n \in 1..Len(results) : results[n].jobId = "unknown"
  /\ \E n \in 1..Len(results) :
       ~results[n].success /\ results[n].jobId # "unknown"

\* C2: no file of a later batch has been dispatched (left "idle", had its upload
\* issued) while a file of an earlier batch has not yet returned its result.
C2_CrossBatchOrder ==
  \A j \in Files : \A k \in Files :
    ( /\ (j - 1) \div concurrency < (k - 1) \div concurrency
      /\ (pc[k] # "idle" \/ uploadCalls[k] > 0) )
    => pc[j] = "done"

\* with a limit of 2, the third file is uploading after the first two finished
C2_Witness ==
  /\ concurrency = 2
  /\ Len(inputFiles) >= 3
  /\ pc[3] = "upload"
  /\ pc[1] = "done" /\ pc[2] = "done"
  /\ Len(statusLog[1]) > 0

\* C3: at most `concurrency` files have an active pipeline (started, no result yet).
C3_ConcurrencyBound == Cardinality(Active) <= concurrency

\* the limit is reached, with one file polling and another one sleeping
C3_Witness ==
  /\ concurrency = MaxConcurrency
  /\ Cardinality(Active) = concurrency
  /\ \E k \in Active : pc[k] = "poll"
  /\ \E k \in Active : pc[k] = "sleep"

\* C4: a failed upload or creation stays local to its file: no processFile ever
\* rejects, processInputs is rejected only by the mkdir before any dispatch, and
\* a returned run has driven every file once through its pipeline to a result.
C4_FailureIsolated ==
  /\ \A k \in Files : pc[k] # "rejected"
  /\ ppc = "rejected" => \A k \in Files : pc[k] = "idle" /\ uploadCalls[k] = 0
  /\ ppc = "returned" =>
       \A k \in Files : pc[k] = "done" /\ uploadCalls[k] = 1 /\ result[k] # NoResult
  /\ \A k \in Files :
       (pc[k] = "done" /\ result[k] = unknownResult) =>
         \A j \in Files :
           (j - 1) \div concurrency = (k - 1) \div concurrency =>
             uploadCalls[j] = 1 /\ pc[j] \notin {"idle", "rejected"}

\* the upload of the first file failed, its batch sibling and the file of the
\* next batch both succeeded
C4_Witness ==
  /\ ppc = "returned"
  /\ concurrency = 2
  /\ Len(inputFiles) = 3
  /\ fileId[1] = "" /\ result[1] = unknownResult
  /\ result[2].success
  /\ result[3].success

\* C5: a file whose upload threw, or whose createBatchJob returned null, ends
\* with {jobId: "unknown", success: false} and no outputFilePath; after the
\* failed upload no create call is made, after the failed creation no status
\* poll, no sleep and no download.
C5_UnknownOnUploadOrCreateFailure ==
  \A k \in Files :
    /\ (pc[k] \notin {"idle", "upload"} /\ fileId[k] = "") =>
         /\ pc[k] = "done"
         /\ result[k] = [jobId |-> "unknown", success |-> FALSE,
                         outputFilePath |-> NoPath]
         /\ createCalls[k] = 0
         /\ statusLog[k] = << >> /\ downloadCalls[k] = 0
    /\ (createCalls[k] > 0 /\ pc[k] # "create" /\ batchJob[k] = "") =>
         /\ pc[k] = "done"
         /\ result[k] = [jobId |-> "unknown", success |-> FALSE,
                         outputFilePath |-> NoPath]
         /\ createCalls[k] = 1
         /\ statusLog[k] = << >> /\ sleepLog[k] = << >>
         /\ downloadCalls[k] = 0 /\ downloadLog[k] = << >>

\* one file ended on a failed upload and another one on a failed creation
C5_Witness ==
  /\ \E k \in Files : pc[k] = "done" /\ fileId[k] = ""
  /\ \E k \in Files : pc[k] = "done" /\ fileId[k] # "" /\ batchJob[k] = ""

Last(s) == s[Len(s)]

\* C6: a job whose status sequence is [queued, running, running, succeeded] is
\* not polled again after the fourth status, and its result has success = true
\* and outputFilePath = {outputDir}/{jobId}_results.jsonl if the download
\* returned true.
C6_SucceededSequenceSucceeds ==
  \A k \in Files :
    statusLog[k] = <<queued, running, running, succeeded>> =>
      /\ pc[k] \in {"download", "done"}
      /\ (pc[k] = "done" /\ downloadLog[k] = <<TRUE>>) =>
           result[k] = [jobId |-> batchJob[k], success |-> TRUE,
                        outputFilePath |-> outputFile(OutputDir, batchJob[k])]

\* C7: a status poll that returns failed, expired, cancelled or error ends the
\* monitor at once: it is the last poll, the result carries the job's id with
\* success = false and no outputFilePath, and no download was attempted.
C7_FailureStatusIsTerminal ==
  \A k \in Files : \A n \in 1..Len(statusLog[k]) :
    statusLog[k][n] \in {failed, expired, cancelled, error} =>
      /\ n = Len(statusLog[k])
      /\ pc[k] = "done"
      /\ batchJob[k] # ""
      /\ result[k] = [jobId |-> batchJob[k], success |-> FALSE,
                      outputFilePath |-> NoPath]
      /\ downloadCalls[k] = 0 /\ downloadLog[k] = << >>
      /\ Len(sleepLog[k]) = n - 1

\* error is reported on the third poll, after two in-progress polls
C7_Witness ==
  /\ Len(inputFiles) = 1
  /\ Len(statusLog[1]) = 3
  /\ statusLog[1][3] = error
  /\ Len(sleepLog[1]) = 2
  /\ pc[1] = "done"

\* C8: an unavailable status (null) ends the monitor at once: it is the last
\* poll, no sleep follows it, no download is attempted and the result carries
\* the job's id with success = false.
C8_NullStatusIsFatal ==
  \A k \in Files : \A n \in 1..Len(statusLog[k]) :
    statusLog[k][n] = null =>
      /\ n = Len(statusLog[k])
      /\ pc[k] = "done"
      /\ batchJob[k] # ""
      /\ result[k] = [jobId |-> batchJob[k], success |-> FALSE,
                      outputFilePath |-> NoPath]
      /\ downloadCalls[k] = 0
      /\ Len(sleepLog[k]) = n - 1

\* the status was unavailable on the second poll
C8_Witness ==
  /\ Len(inputFiles) = 1
  /\ statusLog[1] = <<running, null>>
  /\ pc[1] = "done"
  /\ Len(sleepLog[1]) = 1

\* C9: a result has success = true exactly when the last status polled was the
\* success value and the download returned true; when the download returned
\* false the result carries the job's id, success = false and no outputFilePath.
C9_SuccessIffDownloaded ==
  \A k \in Files :
    pc[k] = "done" =>
      /\ result[k].success <=>
           ( /\ statusLog[k] # << >>
             /\ Last(statusLog[k]) = completed
             /\ downloadLog[k] = <<TRUE>> )
      /\ (statusLog[k] # << >> /\ Last(statusLog[k]) = completed
            /\ downloadLog[k] = <<FALSE>>) =>
           /\ batchJob[k] # ""
           /\ result[k] = [jobId |-> batchJob[k], success |-> FALSE,
                           outputFilePath |-> NoPath]

\* the job completed remotely and the download returned false
C9_Witness ==
  /\ Len(inputFiles) = 1
  /\ pc[1] = "done"
  /\ Len(statusLog[1]) = 2
  /\ Last(statusLog[1]) = completed
  /\ downloadLog[1] = <<FALSE>>
  /\ ~result[1].success

\* C10: a result with success = true has its output file on disk, at
\* {outputDir}/{jobId}_results.jsonl.
C10_SuccessHasArtifact ==
  \A k \in Files :
    (pc[k] = "done" /\ result[k].success) =>
      outputFile(OutputDir, result[k].jobId) \in disk

\* C11: every JobResult a processFile has returned, and every entry of results,
\* has an outputFilePath only when its success is true, and that path is
\* {outputDir}/{jobId}_results.jsonl for the result's own jobId.
C11_PathOnlyWithSuccess ==
  /\ \A k \in Files :
       (pc[k] = "done" /\ result[k].outputFilePath # NoPath) =>
         /\ result[k].success
         /\ result[k].outputFilePath = outputFile(OutputDir, result[k].jobId)
  /\ \A n \in 1..Len(results) :
       results[n].outputFilePath # NoPath =>
         /\ results[n].success
         /\ results[n].outputFilePath = outputFile(OutputDir, results[n].jobId)

\* a returned run with a successful result carrying its path, next to a result
\* whose download returned false and a result with the sentinel job id
C11_Witness ==
  /\ ppc = "returned"
  /\ \E n \in 1..Len(results) :
       results[n].success /\ results[n].outputFilePath # NoPath
  /\ \E k \in Files : downloadLog[k] = <<FALSE>> /\ pc[k] = "done"
  /\ \E k \in Files : pc[k] = "done" /\ result[k] = unknownResult

\* C12: once a processFile has returned, its result's jobId is "unknown" exactly
\* when no job was created for its file, and otherwise it is the id of the job
\* createBatchJob returned; a close() during the run changes nothing to that.
C12_UnknownIffNoJob ==
  \A k \in Files :
    pc[k] = "done" =>
      /\ (result[k].jobId = "unknown") <=> (batchJob[k] = "")
      /\ batchJob[k] # "" => result[k].jobId = batchJob[k]

\* the number of positions of the sequence s that hold x
Count(s, x) == Cardinality({ n \in 1..Len(s) : s[n] = x })

\* C13: when the input paths hold no eligible file (each is notes.txt or the
\* directory docs), the expanded list stays empty, no file is dispatched and no
\* job is created, and processInputs returns the empty list after the warning.
C13_NothingEligibleShortCircuits ==
  (\A n \in 1..Len(inputPaths) : inputPaths[n] \in {<<notes_txt>>, DocsDir}) =>
    /\ inputFiles = << >>
    /\ DOMAIN pc = {} /\ DOMAIN uploadCalls = {} /\ DOMAIN createCalls = {}
    /\ DOMAIN statusLog = {} /\ DOMAIN downloadCalls = {}
    /\ nextJob = 0
    /\ results = << >>
    /\ ppc # "await"
    /\ (ppc = "rejected" => disk = {})
    /\ (ppc = "returned" =>
          warnings # << >> /\ warnings[Len(warnings)] = noFilesWarning)

\* the directory docs and notes.txt were expanded to nothing and the run returned
C13_Witness ==
  /\ inputPaths = <<DocsDir, <<notes_txt>> >>
  /\ ppc = "returned"
  /\ results = << >>
  /\ warnings = <<skipWarning(<<notes_txt>>), noFilesWarning>>

\* C14: the output directory exists before any file is dispatched: whenever an
\* upload or a job creation has been issued, or the expansion has started, the
\* mkdir has completed; when the mkdir fails the run is rejected with no input
\* expanded, no upload and no job creation issued.
C14_MkdirBeforeAnyJob ==
  /\ ( \/ ppc \in {"expand", "await", "returned"}
       \/ \E k \in Files : uploadCalls[k] > 0 \/ createCalls[k] > 0
       \/ nextJob > 0 )
     => dirPath(OutputDir) \in disk
  /\ (ppc # "called" /\ dirPath(OutputDir) \notin disk) =>
       /\ ppc = "rejected"
       /\ inputFiles = << >> /\ nextPath = 0
       /\ DOMAIN uploadCalls = {} /\ DOMAIN createCalls = {}
       /\ nextJob = 0
       /\ results = << >>

\* the mkdir failed for a run over MaxFiles files
C14_Witness ==
  /\ ppc = "rejected"
  /\ disk = {}
  /\ Len(inputPaths) = MaxFiles

\* C15: the expanded list holds no file twice, and no two files of a run are
\* the same path.
C15_ExpandedListDeduplicated ==
  \A m \in Files : \A n \in Files :
    m # n => inputFiles[m] # inputFiles[n]

\* C16: the directory data, which holds a.jsonl, b.txt, c.JSONL and the
\* sub-directory sub, expands to [data/a.jsonl, data/c.JSONL]; in every run the
\* files taken from a directory are immediate children with a .jsonl extension
\* in any case, and the directory's files come in listing order.
C16_DirectoryExpansion ==
  /\ (inputPaths = <<DataDir>> /\ ppc \in {"await", "returned"}) =>
       inputFiles = << <<data, a_jsonl>>, <<data, c_JSONL>> >>
  /\ \A k \in Files :
       /\ Len(inputFiles[k]) <= 2
       /\ inputFiles[k] \notin { <<data, b_txt>>, <<data, sub>>,
                                  <<docs, notes_txt>>, <<docs, README>> }
       /\ toLowerCase(inputFiles[k][Len(inputFiles[k])]) \in
            { a_jsonl, c_jsonl, e_jsonl }
  /\ (ppc \in {"await", "returned"} /\ inputPaths # << >>
        /\ \A n \in 1..Len(inputPaths) : inputPaths[n] = DataDir) =>
       /\ Len(inputFiles) = 2 * Len(inputPaths)
       /\ \A k \in Files :
            inputFiles[k] = IF k % 2 = 1 THEN <<data, a_jsonl>>
                            ELSE <<data, c_JSONL>>

\* the run over the directory data returned the results of its two files
C16_Witness ==
  /\ inputPaths = <<DataDir>>
  /\ ppc = "returned"
  /\ inputFiles = << <<data, a_jsonl>>, <<data, c_JSONL>> >>
  /\ Len(results) = 2

\* the input paths that are eligible files
EligibleFilePaths == { <<data, a_jsonl>>, <<e_jsonl>> }

\* C17: notes.txt, given as an input path, is never in the expanded list and so
\* gets no result; each time it is given one warning is logged for it; it never
\* rejects the run; and the eligible files given next to it are expanded,
\* uploaded once and have their result when the run returns.
C17_NonJsonlSkipped ==
  /\ \A k \in Files : inputFiles[k] # <<notes_txt>>
  /\ ppc \in {"await", "returned"} =>
       Count(warnings, skipWarning(<<notes_txt>>)) = Count(inputPaths, <<notes_txt>>)
  /\ (ppc = "rejected" /\ disk # {}) =>
       /\ nextPath \in 1..Len(inputPaths)
       /\ inputPaths[nextPath] # <<notes_txt>>
  /\ ppc = "returned" =>
       /\ Len(results) = Len(inputFiles)
       /\ \A n \in 1..Len(inputPaths) :
            inputPaths[n] \in EligibleFilePaths =>
              \E k \in Files : /\ inputFiles[k] = inputPaths[n]
                                /\ uploadCalls[k] = 1
                                /\ pc[k] = "done"

\* notes.txt was skipped and e.jsonl, given after it, was processed
C17_Witness ==
  /\ inputPaths = << <<notes_txt>>, <<e_jsonl>> >>
  /\ ppc = "returned"
  /\ inputFiles = << <<e_jsonl>> >>
  /\ Len(results) = 1 /\ results[1].success
  /\ warnings = <<skipWarning(<<notes_txt>>)>>

\* C18: a path that does not exist does not reject the run: once the output
\* directory is made, a run given gone.jsonl is never rejected.
C18_MissingPathNotFatal ==
  ( /\ \E n \in 1..Len(inputPaths) : inputPaths[n] = <<gone_jsonl>>
    /\ dirPath(OutputDir) \in disk )
  => ppc # "rejected"

\* C19: with the base interval of 5 s the sleeps of a monitor are, in ms,
\* 5000, 7500, 11250, 16875, 25312.5, 37968.75, 56953.125, 60000, 60000, ...:
\* each is min(previous * 1.5, 60000), none is below its predecessor or above
\* 60000, and after a sleep of 60000 every sleep is 60000.
C19_BackoffSequence ==
  \A k \in Files :
    LET sl == sleepLog[k] IN
    /\ \A n \in 1..Len(sl) :
         /\ sl[n] <= 60000 * Den
         /\ n = 1 => sl[n] = 5000 * Den
         /\ n > 1 =>
              /\ 2 * sl[n] = Min(3 * sl[n - 1], 2 * 60000 * Den)
              /\ sl[n - 1] <= sl[n]
              /\ sl[n - 1] = 60000 * Den => sl[n] = 60000 * Den
    /\ Len(sl) >= 2 => sl[2] = 7500 * Den
    /\ Len(sl) >= 3 => sl[3] = 11250 * Den
    /\ Len(sl) >= 4 => sl[4] = 16875 * Den
    /\ Len(sl) >= 5 => 2 * sl[5] = 50625 * Den
    /\ Len(sl) >= 6 => 4 * sl[6] = 151875 * Den
    /\ Len(sl) >= 7 => 8 * sl[7] = 455625 * Den
    /\ Len(sl) >= 8 => sl[8] = 60000 * Den

\* the monitor has slept ten times, the last three times for 60000 ms
C19_Witness ==
  /\ Len(inputFiles) = 1
  /\ Len(sleepLog[1]) = 10
  /\ sleepLog[1][7] < 60000 * Den
  /\ sleepLog[1][8] = 60000 * Den
  /\ sleepLog[1][10] = 60000 * Den

\* C20: when every job reports a terminal status after finitely many answers
\* and every pending call and timer completes, a run whose output directory was
\* made eventually returns, with one result for every input file.
C20_EventuallyReturns ==
  (dirPath(OutputDir) \in disk) ~>
    ( /\ ppc = "returned"
      /\ Len(inputFiles) = Len(inputPaths)
      /\ Len(results) = Len(inputFiles)
      /\ \A k \in Files : pc[k] = "done" /\ result[k] # NoResult )

\* a run of three files has returned after a job that was polled twice
\* succeeded, another job failed and an upload failed
C20_Witness ==
  /\ ppc = "returned"
  /\ Len(inputFiles) = 3
  /\ Len(results) = 3
  /\ \E k \in Files : Len(statusLog[k]) = 2 /\ result[k].success
  /\ \E k \in Files : statusLog[k] # << >> /\ Last(statusLog[k]) = failed
  /\ \E k \in Files : fileId[k] = ""

\* C22: no file is retried within a run: for every file at most one upload call
\* and at most one create call is ever issued, the create call only after the
\* upload call.
C22_NoRetry ==
  \A k \in Files :
    /\ uploadCalls[k] <= 1
    /\ createCalls[k] <= 1
    /\ createCalls[k] <= uploadCalls[k]

\* the run went on to its second batch after an upload failed, a creation
\* failed or a job failed in the first one
C22_Witness ==
  /\ i > 0
  /\ ppc = "await"
  /\ \E k \in Files : pc[k] = "done" /\ fileId[k] = "" /\ uploadCalls[k] = 1
  /\ \E k \in Files : pc[k] = "done" /\ ~result[k].success /\ createCalls[k] = 1
  /\ \E k \in Files : pc[k] \in {"create", "poll", "sleep", "download"}

C24_ConsecutiveSlices ==
  LET N == Len(inputFiles)
      L == maxConcurrentJobs
  IN /\ ppc = "await" =>
          /\ i % L = 0 /\ i < N
          /\ batch(i) = (i + 1)..Min(i + L, N)
          /\ Cardinality(batch(i)) = IF i + L <= N THEN L ELSE N - i
          /\ resultFiles = [n \in 1..i |-> n]
          /\ \A k \in Files : (pc[k] # "idle") <=> (k <= Min(i + L, N))
     /\ ppc = "returned" =>
          /\ i = ((N + L - 1) \div L) * L
          /\ resultFiles = [n \in 1..N |-> n]
     /\ (ppc = "await" /\ N = 5 /\ L = 2) =>
          \/ i = 0 /\ batch(i) = {1, 2}
          \/ i = 2 /\ batch(i) = {3, 4}
          \/ i = 4 /\ batch(i) = {5}

\* five files with a limit of 2: the last batch, of one file, is awaited
C24_Witness ==
  /\ Len(inputFiles) = 5
  /\ maxConcurrentJobs = 2
  /\ ppc = "await"
  /\ i = 4
  /\ pc[5] = "poll"
  /\ Len(results) = 4
\* the calls of one operation issued for file k
CallsOf(k, op) == { n \in 1..Len(callLog[k]) : callLog[k][n].op = op }

\* a status after which the monitor loop goes on
InProgress(st) == st # null /\ st \notin {completed, failed, expired, cancelled, error}

\* C21: the monitor loop has no iteration cap. Every status of a job but its
\* last one is in-progress, each of them was followed by one sleep, and the
\* job was polled once per status (once more while a poll is in flight), so N
\* in-progress statuses and a terminal one make N+1 polls; after the terminal
\* status the result is determined by it alone (and by the download it leads
\* to). As long as the last status of a job is in-progress, whatever their
\* number, the monitor sleeps or polls and has no result, its batch has not
\* drained and no file of a later batch has been started.
C21_NoIterationCap ==
  \A k \in Files :
    LET st == statusLog[k]
        n == Len(st)
        polls == Cardinality(CallsOf(k, "checkBatchStatus"))
        waiting == { m \in 1..n : InProgress(st[m]) }
    IN /\ \A m \in 1..(n - 1) : InProgress(st[m])
       /\ polls = IF pc[k] = "poll" THEN n + 1 ELSE n
       /\ Len(sleepLog[k]) = Cardinality(waiting)
       /\ n > 0 /\ InProgress(st[n]) =>
            /\ pc[k] \in {"sleep", "poll"}
            /\ result[k] = NoResult
            /\ ppc = "await"
            /\ k \in batch(i)
            /\ Len(results) = i
            /\ \A j \in Files : j > k => pc[j] = "idle" /\ callLog[j] = << >>
       /\ n > 0 /\ ~InProgress(st[n]) =>
            /\ pc[k] \in {"download", "done"}
            /\ polls = Cardinality(waiting) + 1
            /\ pc[k] = "done" =>
                 result[k] =
                   IF st[n] = completed
                   THEN downloadResult(batchJob[k], OutputDir, Last(downloadLog[k]))
                   ELSE failedResult(batchJob[k])

\* the first job was QUEUED three times and then COMPLETED, which made four
\* polls and a successful result; the second job is QUEUED for the fifth time
\* and its monitor sleeps while processInputs waits for it
C21_Witness ==
  /\ Len(inputFiles) = 2
  /\ statusLog[1] = <<queued, queued, queued, completed>>
  /\ Cardinality(CallsOf(1, "checkBatchStatus")) = 4
  /\ pc[1] = "done" /\ result[1].success
  /\ Len(statusLog[2]) = 5 /\ \A m \in 1..5 : statusLog[2][m] = queued
  /\ pc[2] = "sleep" /\ ppc = "await" /\ i = 1

\* C25: each iteration of the monitor loop issues one status query: the
\* queries of a job follow each other in its calls, there is one per status
\* received (one more while a query is in flight), and between two consecutive
\* queries exactly one sleep elapsed, so the sleeps started are the queries but
\* the first (one more while the monitor sleeps). A status that is not null,
\* not the success value and not failed/expired/cancelled/error, recognised or
\* not, was followed by a sleep of the current interval, and while it is the
\* last status the monitor sleeps or polls again and has no result.
C25_OneQueryOneSleep ==
  \A k \in Files :
    LET st == statusLog[k]
        n == Len(st)
        polls == CallsOf(k, "checkBatchStatus")
        elapsed == Len(sleepLog[k]) - (IF pc[k] = "sleep" THEN 1 ELSE 0)
    IN /\ Cardinality(polls) = IF pc[k] = "poll" THEN n + 1 ELSE n
       /\ \A a \in polls, c \in polls, b \in 1..Len(callLog[k]) :
            a < b /\ b < c => b \in polls
       /\ polls # {} => elapsed = Cardinality(polls) - 1
       /\ \A m \in 1..n :
            InProgress(st[m]) =>
              /\ Len(sleepLog[k]) >= m
              /\ m = n => pc[k] \in {"sleep", "poll"} /\ result[k] = NoResult
              /\ m < n => Cardinality(polls) > m

\* a job reported as JOB_STATE_SUCCEEDED, a string the loop does not recognise,
\* was polled again after one sleep, is now RUNNING, and its monitor sleeps for
\* the second time
C25_Witness ==
  /\ Len(inputFiles) = 1
  /\ statusLog[1] = <<normalizeStatus(JOB_STATE_SUCCEEDED), running>>
  /\ Cardinality(CallsOf(1, "checkBatchStatus")) = 2
  /\ Len(sleepLog[1]) = 2
  /\ pc[1] = "sleep"

\* the place of an operation in the pipeline of one file
Stage(op) ==
  CASE op = "uploadFile" -> 1
    [] op = "createBatchJob" -> 2
    [] op = "checkBatchStatus" -> 3
    [] op = "downloadBatchResults" -> 4

\* C26: the calls made for one file are in pipeline order: one uploadFile
\* first, then at most one createBatchJob, then the status polls, then at
\* most one downloadBatchResults. The download is the last call, it directly
\* follows a status poll of the same job, the status that poll returned is the
\* success value, and no status poll is issued after it.
C26_PipelineOrder ==
  \A k \in Files :
    LET log == callLog[k]
        downloads == CallsOf(k, "downloadBatchResults")
    IN /\ \A a \in 1..Len(log), b \in 1..Len(log) :
            a < b => Stage(log[a].op) <= Stage(log[b].op)
       /\ \A a \in 1..Len(log) : Stage(log[a].op) <= a
       /\ Cardinality(CallsOf(k, "uploadFile")) <= 1
       /\ Cardinality(CallsOf(k, "createBatchJob")) <= 1
       /\ Cardinality(downloads) <= 1
       /\ Cardinality(downloads) = downloadCalls[k]
       /\ \A d \in downloads :
            /\ d = Len(log)
            /\ log[d - 1].op = "checkBatchStatus"
            /\ log[d - 1].id = log[d].id
            /\ Len(statusLog[k]) = Cardinality(CallsOf(k, "checkBatchStatus"))
            /\ Last(statusLog[k]) = completed
            /\ pc[k] \in {"download", "done"}

\* a file was uploaded, its job created, polled twice and, after the second
\* poll returned the success value, downloaded once
C26_Witness ==
  \E k \in Files :
    /\ [n \in 1..Len(callLog[k]) |-> callLog[k][n].op] =
         <<"uploadFile", "createBatchJob", "checkBatchStatus",
           "checkBatchStatus", "downloadBatchResults">>
    /\ statusLog[k] = <<running, completed>>
    /\ pc[k] = "done"

\* C27: a Job's completedAt is set on the first observation of a terminal
\* status: it is unset while the job is polled, and set once the monitor has
\* returned a result for a job whose last status is the success value or one
\* of failed/expired/cancelled/error.
C27_CompletedAtSet ==
  \A k \in Files :
    /\ pc[k] \in {"poll", "sleep"} => job[k].completedAt = undefined
    /\ ( /\ pc[k] = "done"
         /\ Len(statusLog[k]) > 0
         /\ Last(statusLog[k]) # null
         /\ ~InProgress(Last(statusLog[k])) )
       => job[k].completedAt # undefined

\* C28: in every state and for every Job object, outputFileId is set if and
\* only if the status field of the object is the success status.
C28_OutputRefIffSucceeded ==
  \A k \in Files :
    (job[k].outputFileId # undefined) <=> (job[k].status = completed)

\* the files for which a job was created
Created == { k \in Files : job[k] # NoJob }

\* C29: monitors never contend on an output file. The path a monitor passes to
\* the download, and the path in its result, is the one derived from the id of
\* its own job, under the output directory; and two jobs of the same
\* processInputs call with distinct ids have distinct output paths, in the
\* downloads issued and in the results.
C29_DistinctOutputPaths ==
  /\ \A k \in Files : \A d \in CallsOf(k, "downloadBatchResults") :
       /\ callLog[k][d].path.dir = OutputDir
       /\ callLog[k][d].path.name = <<batchJob[k], "_results.jsonl">>
  /\ \A k \in Files :
       result[k].outputFilePath # NoPath =>
         /\ result[k].outputFilePath.dir = OutputDir
         /\ result[k].outputFilePath.name = <<batchJob[k], "_results.jsonl">>
  /\ \A j \in Created, k \in Created :
       batchJob[j] # batchJob[k] =>
         /\ outputFile(OutputDir, batchJob[j]) # outputFile(OutputDir, batchJob[k])
         /\ \A a \in CallsOf(j, "downloadBatchResults"),
              b \in CallsOf(k, "downloadBatchResults") :
              callLog[j][a].path # callLog[k][b].path
         /\ result[j].outputFilePath # NoPath =>
              result[j].outputFilePath # result[k].outputFilePath

\* the downloads of two jobs of one batch are in flight together, each with
\* the path of its own job
C29_Witness ==
  /\ Len(inputFiles) >= 2
  /\ pc[1] = "download" /\ pc[2] = "download"
  /\ batchJob[1] # batchJob[2]
  /\ Last(callLog[1]).path = outputFile(OutputDir, batchJob[1])
  /\ Last(callLog[2]).path = outputFile(OutputDir, batchJob[2])
  /\ Last(callLog[1]).path # Last(callLog[2]).path

\* the interval of a monitor after n of its sleeps
RECURSIVE IntervalAfter(_)
IntervalAfter(n) == IF n = 0 THEN initialInterval ELSE nextInterval(IntervalAfter(n - 1))

\* the sleeps of the monitor of file k that have elapsed
Elapsed(k) == Len(sleepLog[k]) - (IF pc[k] = "sleep" THEN 1 ELSE 0)

\* the calls for file k use its own ids, and its interval depends on its own
\* sleeps only
OwnsItsJob ==
  \A k \in Created :
    /\ batchJob[k] \in { JobNames[n] : n \in 1..Len(JobNames) }
    /\ \A j \in Created : j # k => batchJob[j] # batchJob[k]
    /\ job[k].inputFileId = fileId[k]
    /\ \A c \in CallsOf(k, "createBatchJob") : callLog[k][c].id = fileId[k]
    /\ \A c \in CallsOf(k, "checkBatchStatus") \cup CallsOf(k, "downloadBatchResults") :
         callLog[k][c].id = batchJob[k]
    /\ checkInterval[k] = IntervalAfter(Elapsed(k))

\* a step leaves the id and the inputFileId of every created Job as they are,
\* and changes the interval of a monitor only when that monitor's own sleep ends
JobFrame ==
  \A k \in Created :
    /\ batchJob'[k] = batchJob[k]
    /\ job'[k].inputFileId = job[k].inputFileId
    /\ checkInterval'[k] # checkInterval[k] => pc[k] = "sleep" /\ pc'[k] # "sleep"

\* C30: a monitor owns only its own Job. Every status poll and the download
\* issued for a file carry the id its own createBatchJob returned, which no
\* other file's job has; the id and the inputFileId of a Job never change after
\* its creation; and the backoff interval of a monitor is the initial interval
\* grown once per sleep of that monitor, whatever the other monitors do.
C30_MonitorOwnsJob == []OwnsItsJob /\ [][JobFrame]_vars

\* two monitors of one batch: the first has slept once and polls again with
\* the grown interval, the second is at its first poll with the initial one
C30_Witness ==
  /\ Len(inputFiles) >= 2
  /\ {1, 2} \subseteq Created
  /\ pc[1] = "poll" /\ Len(sleepLog[1]) = 1 /\ checkInterval[1] = nextInterval(initialInterval)
  /\ pc[2] = "poll" /\ Len(sleepLog[2]) = 0 /\ checkInterval[2] = initialInterval
  /\ Last(callLog[1]).id = batchJob[1] /\ Last(callLog[2]).id = batchJob[2]
  /\ batchJob[1] # batchJob[2]

\* C31: the provider maps remote errors to values, except for upload. When
\* the client call of an operation failed, createBatchJob returned null,
\* checkBatchStatus returned null, downloadBatchResults returned false and
\* cancelJob returned false, none of them throwing, whereas uploadFile threw
\* the error to its caller.
C31_ErrorsAsValues ==
  \A n \in 1..Len(opLog) :
    LET o == opLog[n] IN
    o.remote /\ ~o.clientOk =>
      /\ o.method = "createBatchJob" => ~o.threw /\ o.value = null
      /\ o.method = "checkBatchStatus" => ~o.threw /\ o.value = null
      /\ o.method = "downloadBatchResults" => ~o.threw /\ o.value = FALSE
      /\ o.method = "cancelJob" => ~o.threw /\ o.value = FALSE
      /\ o.method = "uploadFile" => o.threw

\* a cancelJob whose client call failed returned false, then an uploadFile
\* whose client call failed threw
C31_Witness ==
  /\ Len(opLog) = 2
  /\ opLog[1].method = "cancelJob" /\ opLog[1].remote /\ ~opLog[1].clientOk
  /\ ~opLog[1].threw /\ opLog[1].value = FALSE
  /\ opLog[2].method = "uploadFile" /\ opLog[2].remote /\ ~opLog[2].clientOk
  /\ opLog[2].threw

\* an operation is called in this step
Called == Len(opLog') = Len(opLog) + 1

\* C36: once close() has completed the provider is null; and every operation
\* called on a BatchProcessor without a provider, after a completed close or
\* because no API key was available at construction, is one of the seven
\* provider-backed operations, throws the 'provider is not initialized' error
\* and issues no remote call.
C36_NoProviderNoCall ==
  /\ [](cpc = "returned" => provider = NoProvider)
  /\ [][Called /\ provider = NoProvider =>
         /\ Last(opLog').method \in Methods
         /\ ~Last(opLog').remote
         /\ Last(opLog').threw
         /\ Last(opLog').value = notInitialized]_vars

\* a processor constructed with a key issued a remote call for its first
\* operation; after its close() completed, cancelJob threw without one
C36_Witness ==
  /\ cpc = "returned" /\ provider = NoProvider
  /\ Len(opLog) = 2
  /\ opLog[1].remote
  /\ opLog[2].method = "cancelJob" /\ ~opLog[2].remote /\ opLog[2].threw

\* C32: the results of processInputs are in expanded-input order: at every
\* moment the n-th result is the result of the n-th input file, and when
\* processInputs returns there is one per file, whatever the order in which
\* the files of a batch finished.
C32_ResultsInInputOrder ==
  /\ \A n \in 1..Len(results) : resultFiles[n] = n /\ results[n] = result[n]
  /\ ppc = "returned" /\ Len(inputFiles) > 0 => Len(results) = Len(inputFiles)

\* the second file of the first batch finished before the first one, and the
\* results returned are those of the first, second and third file in order
C32_Witness ==
  /\ Len(inputFiles) = 3
  /\ doneLog = <<2, 1, 3>>
  /\ ppc = "returned"
  /\ resultFiles = <<1, 2, 3>>
  /\ results = <<result[1], result[2], result[3]>>
  /\ result[1].jobId # result[2].jobId

\* C33: for every configured check interval, one above 60 seconds included,
\* every sleep of a monitor, the first one included, lasts at most maxInterval.
C33_SleepAtMostMaxInterval ==
  \A k \in Files : \A n \in 1..Len(sleepLog[k]) :
    sleepLog[k][n] <= maxInterval * Den

C35_DownloadOnlySucceeded ==
  /\ jd.downloads <= 1
  /\ jd.downloads = 1 => jd.job.kind = "job" /\ jd.job.state = JOB_STATE_SUCCEEDED
  /\ ( /\ jd.pc \in {"close", "returned"}
       /\ ~(jd.job.kind = "job" /\ jd.job.state = JOB_STATE_SUCCEEDED) )
     => jd.ret = "null" /\ jd.created = {} /\ jd.downloads = 0
  /\ jd.closes = IF jd.pc \in {"close", "returned"} THEN 1 ELSE 0
  /\ jd.pc = "returned" => jd.ret \in {"null", "outputFile"}
  /\ jd.ret = "outputFile" => jd.downloads = 1

\* a succeeded job was downloaded into a new directory given with --output,
\* and the handler returned the file after closing the processor once
C35_Witness ==
  /\ jd.pc = "returned"
  /\ jd.job.state = JOB_STATE_SUCCEEDED
  /\ jd.output = NewDir
  /\ jd.created = {NewDir}
  /\ jd.downloads = 1
  /\ jd.ret = "outputFile"
  /\ jd.closes = 1

\* a `config list` that ran right after a `config set-key` has returned
ListAfterSetKey ==
  /\ cmd.pc = "returned"
  /\ Len(cmd.log) >= 2
  /\ cmd.log[Len(cmd.log) - 1] = "set-key"
  /\ cmd.log[Len(cmd.log)] = "list"

\* C37: setting the API key round-trips through the config file: after
\* handleConfigSetKey(k) has reported success, a following Config.load() and
\* getApiKey() return k, and the stored model, maxConcurrentJobs and
\* checkInterval are what they were before.
C37_SetKeyRoundTrip ==
  ListAfterSetKey /\ cmd.reported =>
    /\ cmd.shown = cmd.key
    /\ config.gemini.model = cmd.before.gemini.model
    /\ config.maxConcurrentJobs = cmd.before.maxConcurrentJobs
    /\ config.checkInterval = cmd.before.checkInterval

\* a `config list` has returned: getApiKey was applied to the loaded
\* configuration and the environment
ListReturned ==
  cmd.pc = "returned" /\ Len(cmd.log) >= 1 /\ cmd.log[Len(cmd.log)] = "list"

\* C38: getApiKey returns the stored key if it is non-empty, otherwise
\* GEMINI_API_KEY, otherwise GOOGLE_GENERATIVE_AI_API_KEY, otherwise undefined.
C38_KeyPrecedence ==
  ListReturned =>
    cmd.shown =
      IF truthy(config.gemini.apiKey) THEN config.gemini.apiKey
      ELSE IF truthy(env.GEMINI_API_KEY) THEN env.GEMINI_API_KEY
      ELSE IF truthy(env.GOOGLE_GENERATIVE_AI_API_KEY)
           THEN env.GOOGLE_GENERATIVE_AI_API_KEY
      ELSE undefined

\* C38, amended: getApiKey returns the first non-empty one of the stored key,
\* GEMINI_API_KEY and GOOGLE_GENERATIVE_AI_API_KEY, so that a non-empty stored
\* key is never overridden by the environment; when none of them is non-empty
\* it returns the value of GOOGLE_GENERATIVE_AI_API_KEY as it is, undefined
\* when the variable is unset and the empty string when it is set to the
\* empty string.
C38_KeyPrecedenceAmended ==
  ListReturned =>
    /\ truthy(config.gemini.apiKey) => cmd.shown = config.gemini.apiKey
    /\ ~truthy(config.gemini.apiKey) /\ truthy(env.GEMINI_API_KEY) =>
         cmd.shown = env.GEMINI_API_KEY
    /\ ~truthy(config.gemini.apiKey) /\ ~truthy(env.GEMINI_API_KEY) =>
         cmd.shown = env.GOOGLE_GENERATIVE_AI_API_KEY
    /\ ~truthy(cmd.shown) <=>
         /\ ~truthy(config.gemini.apiKey)
         /\ ~truthy(env.GEMINI_API_KEY)
         /\ ~truthy(env.GOOGLE_GENERATIVE_AI_API_KEY)

\* no key is stored, GEMINI_API_KEY is unset and GOOGLE_GENERATIVE_AI_API_KEY
\* is set to the empty string: getApiKey returned the empty string
C38_Witness ==
  /\ ListReturned
  /\ config.gemini.apiKey = undefined
  /\ env.GEMINI_API_KEY = undefined
  /\ env.GOOGLE_GENERATIVE_AI_API_KEY = ""
  /\ cmd.shown = ""

====
